---- MODULE Spec2Model ----
(***************************************************************************)
(* Text highlighter browser extension: content script (selection capture,  *)
(* restoration engine), highlight store and XPath address codec.           *)
(*                                                                         *)
(* The DOM is a tree of uniform node records.  A text string is a sequence *)
(* of one-character strings.  A node is addressed by its path: the         *)
(* sequence of child positions from the document node.  An XPath address   *)
(* "/html[1]/body[1]/p[2]" is the sequence of its steps                    *)
(* <<[tag |-> "html", index |-> 1], ...>>; the empty string is <<>>.       *)
(***************************************************************************)
EXTENDS Integers, Sequences, FiniteSets, TLC

(***************************************************************************)
(* Program constants                                                       *)
(***************************************************************************)
HIGHLIGHT_CLASS == "text-highlight-extension"
DefaultColor == "#fef08a"
TitlePlaceholder == "Click to view note"
MinTextLength == 3
PageUrl == "https://a.example/page"

(***************************************************************************)
(* Bounds of the model                                                     *)
(***************************************************************************)
MaxRecords == 2
MaxTimers == 1
MaxMessages == 1
MaxClock == 1
IdName == <<"h1", "h2", "h3", "h4", "h5", "h6">>

\* The notes typed into the tooltip.
Notes == {"", "n"}

\* Two of the six colors of the toolbar's palette.
Palette == {"#fef08a", "#bbf7d0"}

(***************************************************************************)
(* DOM nodes                                                               *)
(***************************************************************************)
\* Namespaces of elements: HTML elements, and the elements of inline SVG.
HtmlNs == "http://www.w3.org/1999/xhtml"
SvgNs == "http://www.w3.org/2000/svg"
NoNs == ""

TextNode(s) ==
  [kind |-> "text", tag |-> "#text", ns |-> NoNs, cls |-> "", hid |-> "",
   title |-> "", bg |-> "", data |-> s, kids |-> <<>>]

Elem(t, ks) ==
  [kind |-> "elem", tag |-> t, ns |-> HtmlNs, cls |-> "", hid |-> "",
   title |-> "", bg |-> "", data |-> <<>>, kids |-> ks]

\* An element of inline SVG (<svg>, and the elements the parser puts in it).
SvgElem(t, ks) ==
  [kind |-> "elem", tag |-> t, ns |-> SvgNs, cls |-> "", hid |-> "",
   title |-> "", bg |-> "", data |-> <<>>, kids |-> ks]

\* <!-- ... -->: a node that is neither an element nor a text node.
CommentNode ==
  [kind |-> "comment", tag |-> "#comment", ns |-> NoNs, cls |-> "", hid |-> "",
   title |-> "", bg |-> "", data |-> <<>>, kids |-> <<>>]

DocumentNode(ks) ==
  [kind |-> "doc", tag |-> "#document", ns |-> NoNs, cls |-> "", hid |-> "",
   title |-> "", bg |-> "", data |-> <<>>, kids |-> ks]

\* Node.nodeName: the tag name, in upper case for an HTML element.  The tag
\* names of the model are lower case; upper marks the upper-cased name.
nodeName(n) == [upper |-> n.ns = HtmlNs, name |-> n.tag]

\* nodeName.toLowerCase()
toLowerCase(name) == name.name

IsMarker(n) == n.kind = "elem" /\ n.cls = HIGHLIGHT_CLASS

SeqRange(s) == {s[i] : i \in 1..Len(s)}

Last(s) == s[Len(s)]

RECURSIVE Flatten(_)
Flatten(ss) == IF ss = <<>> THEN <<>> ELSE Head(ss) \o Flatten(Tail(ss))

RECURSIVE NodeAt(_, _)
NodeAt(n, p) == IF p = <<>> THEN n ELSE NodeAt(n.kids[Head(p)], Tail(p))

ValidPath(root, p) ==
  \A i \in 1..Len(p) :
    LET par == NodeAt(root, SubSeq(p, 1, i - 1))
    IN  p[i] \in 1..Len(par.kids)

ParentPath(p) == SubSeq(p, 1, Len(p) - 1)

RECURSIVE TextContent(_)
TextContent(n) ==
  IF n.kind = "text" THEN n.data
  ELSE Flatten([i \in 1..Len(n.kids) |-> TextContent(n.kids[i])])

\* Paths (relative to n) of the text nodes below n, in document order.
RECURSIVE TextPaths(_)
TextPaths(n) ==
  IF n.kind = "text" THEN << <<>> >>
  ELSE Flatten([i \in 1..Len(n.kids) |->
                 LET sub == TextPaths(n.kids[i])
                 IN  [j \in 1..Len(sub) |-> <<i>> \o sub[j]]])

\* Paths (relative to n) of all nodes below n and n itself, in document order.
RECURSIVE AllPaths(_)
AllPaths(n) ==
  << <<>> >> \o
  Flatten([i \in 1..Len(n.kids) |->
            LET sub == AllPaths(n.kids[i])
            IN  [j \in 1..Len(sub) |-> <<i>> \o sub[j]]])

\* The tree n with the node at path p (non-empty) replaced by the nodes repl.
RECURSIVE Splice(_, _, _)
Splice(n, p, repl) ==
  IF Len(p) = 1
  THEN [n EXCEPT !.kids = SubSeq(n.kids, 1, p[1] - 1) \o repl
                          \o SubSeq(n.kids, p[1] + 1, Len(n.kids))]
  ELSE [n EXCEPT !.kids[p[1]] = Splice(n.kids[p[1]], Tail(p), repl)]

\* Node.normalize(): in the whole subtree, empty text nodes are removed and
\* adjacent text nodes are merged.
RECURSIVE MergeText(_)
MergeText(ks) ==
  IF ks = <<>> THEN <<>>
  ELSE LET k == Head(ks)
           rest == MergeText(Tail(ks))
       IN  IF k.kind = "text" /\ k.data = <<>> THEN rest
           ELSE IF k.kind = "text" /\ rest # <<>> /\ Head(rest).kind = "text"
                THEN <<TextNode(k.data \o Head(rest).data)>> \o Tail(rest)
                ELSE <<k>> \o rest

RECURSIVE Normalize(_)
Normalize(n) ==
  IF n.kind = "text" THEN n
  ELSE [n EXCEPT !.kids =
          MergeText([i \in 1..Len(n.kids) |-> Normalize(n.kids[i])])]

(***************************************************************************)
(* Address codec                                                           *)
(***************************************************************************)
\* An index that counts every preceding sibling node.
SiblingIndexOfNode(root, p) == p[Len(p)]

\* An index that counts every preceding sibling element.
SiblingPosition(root, p) ==
  1 + Cardinality({j \in 1..(p[Len(p)] - 1) :
                     NodeAt(root, ParentPath(p)).kids[j].kind = "elem"})

\* 1 + the number of preceding sibling elements with the same node name.
SiblingIndex(root, p) ==
  LET par == NodeAt(root, ParentPath(p))
      me == NodeAt(root, p)
  IN  1 + Cardinality({j \in 1..(p[Len(p)] - 1) :
                         /\ par.kids[j].kind = "elem"
                         /\ nodeName(par.kids[j]) = nodeName(me)})

\* The while loop of generateXPath: one step per element from cur upwards.
RECURSIVE XPathSteps(_, _)
XPathSteps(root, cur) ==
  IF NodeAt(root, cur).kind # "elem" THEN <<>>
  ELSE IF cur = <<>> THEN <<[tag |-> toLowerCase(nodeName(root)), index |-> 1]>>
  ELSE XPathSteps(root, ParentPath(cur))
         \o <<[tag |-> toLowerCase(nodeName(NodeAt(root, cur))),
               index |-> SiblingIndex(root, cur)]>>

\* An encoding that takes the parent of every node that is not an element.
generateXPathOfParent(root, p) ==
  XPathSteps(root, IF NodeAt(root, p).kind # "elem" THEN ParentPath(p) ELSE p)

generateXPath(root, p) ==
  LET element == IF NodeAt(root, p).kind = "text" /\ p # <<>>
                 THEN ParentPath(p) ELSE p
  IN  IF NodeAt(root, element).kind # "elem" THEN <<>>
      ELSE XPathSteps(root, element)

\* Child positions of the elements a name test selects among the children ks.
\* In an HTML document a name test without prefix selects the HTML elements
\* with that local name; an element in another namespace (inline SVG) is
\* selected by no name test without prefix.
RECURSIVE NamedKids(_, _, _)
NamedKids(ks, tag, from) ==
  IF from > Len(ks) THEN <<>>
  ELSE (IF ks[from].kind = "elem" /\ ks[from].ns = HtmlNs /\ ks[from].tag = tag
        THEN <<from>> ELSE <<>>)
         \o NamedKids(ks, tag, from + 1)

\* Evaluation of the location path steps from the node at path cur.
RECURSIVE EvalSteps(_, _, _)
EvalSteps(root, cur, steps) ==
  IF steps = <<>> THEN [status |-> "ok", path |-> cur]
  ELSE LET named == NamedKids(NodeAt(root, cur).kids, Head(steps).tag, 1)
       IN  IF Head(steps).index <= Len(named)
           THEN EvalSteps(root, cur \o <<named[Head(steps).index]>>, Tail(steps))
           ELSE [status |-> "null", path |-> <<>>]

\* An evaluation that answers with the last element it reached when a step
\* matches nothing.
RECURSIVE EvalStepsNearest(_, _, _)
EvalStepsNearest(root, cur, steps) ==
  IF steps = <<>> THEN [status |-> "ok", path |-> cur]
  ELSE LET named == NamedKids(NodeAt(root, cur).kids, Head(steps).tag, 1)
       IN  IF Head(steps).index <= Len(named)
           THEN EvalStepsNearest(root, cur \o <<named[Head(steps).index]>>,
                                 Tail(steps))
           ELSE [status |-> "ok", path |-> cur]

getElementByXPathNearest(root, xpath) ==
  IF xpath = <<>> THEN [status |-> "throw", path |-> <<>>]
  ELSE EvalStepsNearest(root, <<>>, xpath)

\* document.evaluate(xpath, document, ..., FIRST_ORDERED_NODE_TYPE).singleNodeValue
\* "throw": the empty string is not an XPath expression (SyntaxError).
getElementByXPath(root, xpath) ==
  IF xpath = <<>> THEN [status |-> "throw", path |-> <<>>]
  ELSE EvalSteps(root, <<>>, xpath)

(***************************************************************************)
(* Highlight store (localStorage item "text_highlights")                   *)
(***************************************************************************)
\* The item is what localStorage holds under the key:
\*   NoItem           nothing (getItem returns null)
\*   EmptyItem        the empty string
\*   Serialized(hs)   JSON.stringify of the array hs of records
\*   NonArrayItem     valid JSON that is not an array (such as "null" or "{}")
\*   InvalidItem      text that is not JSON
\* The content script's localStorage is the page origin's: the page's own
\* scripts can write the same key.
NoItem == [kind |-> "null", value |-> <<>>]
EmptyItem == [kind |-> "empty", value |-> <<>>]
NonArrayItem == [kind |-> "json", value |-> <<>>]
InvalidItem == [kind |-> "text", value |-> <<>>]

\* JSON.stringify(highlights)
stringify(highlights) == [kind |-> "array", value |-> highlights]

\* The outcome of a call: the array returned (<<>> when the call returns no
\* array), the error thrown ("" when none), and the item the call leaves in
\* localStorage.
Return(v, item) == [status |-> "ok", value |-> v, error |-> "", item |-> item]
Throw(error, item) ==
  [status |-> "throw", value |-> <<>>, error |-> error, item |-> item]

\* JSON.parse(data) gives an array.
IsArray(st) == st.kind = "array"

\* JSON.parse(data): throws on text that is not JSON.  For JSON that is not
\* an array the value returned is not an array (value <<>> stands for it; the
\* callers below tell it apart with IsArray).
parse(st) ==
  IF st.kind = "text" THEN Throw("SyntaxError", st) ELSE Return(st.value, st)

\* data ? JSON.parse(data) : []
getAll(st) ==
  IF st.kind \in {"null", "empty"} THEN Return(<<>>, st) ELSE parse(st)

\* getAll() returned, and what it returned is an array.
HasArray(st) == st.kind \in {"null", "empty"} \/ IsArray(st)

\* A listing that compares URLs without their trailing slash.
WithoutSlash(url) == IF url = "https://a.example/page/" THEN "https://a.example/page" ELSE url

getByUrlNormalised(st, url) ==
  IF getAll(st).status = "throw" THEN getAll(st)
  ELSE IF ~HasArray(st) THEN Throw("TypeError", st)
  ELSE Return(SelectSeq(getAll(st).value,
                        LAMBDA h : WithoutSlash(h.url) = WithoutSlash(url)), st)

\* this.getAll().filter((h) => h.url === url): filter is not a function of
\* a value that is not an array.
getByUrl(st, url) ==
  IF getAll(st).status = "throw" THEN getAll(st)
  ELSE IF ~HasArray(st) THEN Throw("TypeError", st)
  ELSE Return(SelectSeq(getAll(st).value, LAMBDA h : h.url = url), st)

\* A save that puts the new record first.
saveFirst(st, highlight) ==
  IF getAll(st).status = "throw" THEN getAll(st)
  ELSE IF ~HasArray(st) THEN Throw("TypeError", st)
  ELSE Return(<<>>, stringify(<<highlight>> \o getAll(st).value))

\* highlights.push(highlight); setItem(STORAGE_KEY, JSON.stringify(highlights))
save(st, highlight) ==
  IF getAll(st).status = "throw" THEN getAll(st)
  ELSE IF ~HasArray(st) THEN Throw("TypeError", st)
  ELSE Return(<<>>, stringify(Append(getAll(st).value, highlight)))

\* A delete that removes the records up to and including the one with the id.
deleteUpTo(st, id) ==
  IF getAll(st).status = "throw" THEN getAll(st)
  ELSE IF ~HasArray(st) THEN Throw("TypeError", st)
  ELSE Return(<<>>, stringify(
         SubSeq(getAll(st).value,
                (IF \E i \in 1..Len(getAll(st).value) : getAll(st).value[i].id = id
                 THEN 1 + CHOOSE i \in 1..Len(getAll(st).value) :
                            /\ getAll(st).value[i].id = id
                            /\ \A j \in (i + 1)..Len(getAll(st).value) :
                                 getAll(st).value[j].id # id
                 ELSE 1),
                Len(getAll(st).value))))

\* filter((h) => h.id !== id), then setItem
delete(st, id) ==
  IF getAll(st).status = "throw" THEN getAll(st)
  ELSE IF ~HasArray(st) THEN Throw("TypeError", st)
  ELSE Return(<<>>, stringify(SelectSeq(getAll(st).value,
                                        LAMBDA h : h.id # id)))

\* highlights.findIndex((h) => h.id === id): 0 stands for -1.
findIndex(highlights, id) ==
  IF \E i \in 1..Len(highlights) : highlights[i].id = id
  THEN CHOOSE i \in 1..Len(highlights) :
         /\ highlights[i].id = id
         /\ \A j \in 1..(i - 1) : highlights[j].id # id
  ELSE 0

\* A merge in which the fields of the record win: { ...updates, ...highlight }
mergeKeeping(highlight, updates) ==
  [f \in DOMAIN highlight \cup DOMAIN updates |->
     IF f \in DOMAIN highlight THEN highlight[f] ELSE updates[f]]

\* A merge that also moves the record's timestamp.
mergeStamped(highlight, updates) ==
  [f \in DOMAIN highlight \cup DOMAIN updates |->
     IF f \in DOMAIN updates THEN updates[f]
     ELSE IF f = "timestamp" THEN highlight[f] + 1
     ELSE highlight[f]]

\* { ...highlight, ...updates }
merge(highlight, updates) ==
  [f \in DOMAIN highlight \cup DOMAIN updates |->
     IF f \in DOMAIN updates THEN updates[f] ELSE highlight[f]]

\* An edit that writes back the edited record alone.
MergeAtAlone(highlights, index, updates) ==
  <<merge(highlights[index], updates)>>

\* highlights[index] = { ... }; setItem, when index !== -1
MergeAt(highlights, index, updates) ==
  [highlights EXCEPT ![index] = merge(highlights[index], updates)]

update(st, id, updates) ==
  IF getAll(st).status = "throw" THEN getAll(st)
  ELSE IF ~HasArray(st) THEN Throw("TypeError", st)
  ELSE IF findIndex(getAll(st).value, id) = 0 THEN Return(<<>>, st)
  ELSE Return(<<>>, stringify(MergeAt(getAll(st).value,
                                      findIndex(getAll(st).value, id), updates)))

\* The records of the item, when it holds an array (none otherwise).
Records(st) == IF HasArray(st) THEN getAll(st).value ELSE <<>>

(***************************************************************************)
(* Restoration engine                                                      *)
(***************************************************************************)
Min(a, b) == IF a < b THEN a ELSE b
Max(a, b) == IF a < b THEN b ELSE a
Clamp(i, n) == Max(0, Min(i, n))

\* String.prototype.substring(a, b): arguments clamped to [0, length] and
\* swapped when a > b.
substring(s, a, b) ==
  LET lo == Min(Clamp(a, Len(s)), Clamp(b, Len(s)))
      hi == Max(Clamp(a, Len(s)), Clamp(b, Len(s)))
  IN  SubSeq(s, lo + 1, hi)

\* A substring(a) that starts one character late.
substringFromNext(s, a) == SubSeq(s, Clamp(a, Len(s)) + 2, Len(s))

\* String.prototype.substring(a)
substringFrom(s, a) == SubSeq(s, Clamp(a, Len(s)) + 1, Len(s))

\* A marker that takes the record's color as it is.
MarkerSpanOfColor(highlight, highlighted) ==
  [kind |-> "elem", tag |-> "span", ns |-> HtmlNs, cls |-> HIGHLIGHT_CLASS,
   hid |-> highlight.id,
   title |-> IF highlight.note # "" THEN highlight.note ELSE TitlePlaceholder,
   bg |-> highlight.color,
   data |-> <<>>, kids |-> <<TextNode(highlighted)>>]

MarkerSpan(highlight, highlighted) ==
  [kind |-> "elem", tag |-> "span", ns |-> HtmlNs, cls |-> HIGHLIGHT_CLASS,
   hid |-> highlight.id,
   title |-> IF highlight.note # "" THEN highlight.note ELSE TitlePlaceholder,
   bg |-> IF highlight.color # "" THEN highlight.color ELSE DefaultColor,
   data |-> <<>>, kids |-> <<TextNode(highlighted)>>]

\* A loop body that takes the record's offsets as offsets into the text node.
SplitTextNodeAbsolute(root, tp, highlight, nodeStart) ==
  LET text == NodeAt(root, tp).data
      before == substring(text, 0, highlight.startOffset)
      highlighted == substring(text, highlight.startOffset, highlight.endOffset)
      after == SubSeq(text, Clamp(highlight.endOffset, Len(text)) + 1, Len(text))
  IN  IF highlighted # <<>>
      THEN Splice(root, tp,
                  (IF before # <<>> THEN <<TextNode(before)>> ELSE <<>>)
                  \o <<MarkerSpan(highlight, highlighted)>>
                  \o (IF after # <<>> THEN <<TextNode(after)>> ELSE <<>>))
      ELSE root

\* The body of the text-node loop for the node found to contain the range.
SplitTextNode(root, tp, highlight, nodeStart) ==
  LET text == NodeAt(root, tp).data
      startOffset == highlight.startOffset - nodeStart
      endOffset == highlight.endOffset - nodeStart
      before == substring(text, 0, startOffset)
      highlighted == substring(text, startOffset, endOffset)
      after == substringFrom(text, endOffset)
  IN  IF highlighted # <<>>
      THEN Splice(root, tp,
                  (IF before # <<>> THEN <<TextNode(before)>> ELSE <<>>)
                  \o <<MarkerSpan(highlight, highlighted)>>
                  \o (IF after # <<>> THEN <<TextNode(after)>> ELSE <<>>))
      ELSE root

\* A loop that takes the text node in which the range starts, whether or not
\* the range ends in it.
RECURSIVE ScanTextNodesByStart(_, _, _, _, _, _)
ScanTextNodesByStart(root, ep, textNodes, highlight, i, currentOffset) ==
  IF i > Len(textNodes) THEN root
  ELSE LET tp == ep \o textNodes[i]
           nodeStart == currentOffset
           nodeEnd == currentOffset + Len(NodeAt(root, tp).data)
       IN  IF nodeStart <= highlight.startOffset /\ highlight.startOffset < nodeEnd
           THEN SplitTextNode(root, tp, highlight, nodeStart)
           ELSE ScanTextNodesByStart(root, ep, textNodes, highlight, i + 1, nodeEnd)

\* for (const textNode of textNodes) { ... }: i is the loop position,
\* currentOffset the running character offset.
RECURSIVE ScanTextNodes(_, _, _, _, _, _)
ScanTextNodes(root, ep, textNodes, highlight, i, currentOffset) ==
  IF i > Len(textNodes) THEN root
  ELSE LET tp == ep \o textNodes[i]
           nodeStart == currentOffset
           nodeEnd == currentOffset + Len(NodeAt(root, tp).data)
       IN  IF nodeStart <= highlight.startOffset /\ highlight.endOffset <= nodeEnd
           THEN SplitTextNode(root, tp, highlight, nodeStart)
           ELSE ScanTextNodes(root, ep, textNodes, highlight, i + 1, nodeEnd)

highlightTextInElement(root, ep, highlight) ==
  ScanTextNodes(root, ep, TextPaths(NodeAt(root, ep)), highlight, 1, 0)

\* Paths of the marker elements of the document, in document order.
MarkerPaths(root) ==
  SelectSeq(AllPaths(root), LAMBDA p : IsMarker(NodeAt(root, p)))

ReplaceNode(root, p, n) == IF p = <<>> THEN n ELSE Splice(root, p, <<n>>)

\* The forEach over querySelectorAll(".text-highlight-extension").  The node
\* list is static and in document order; a marker inside an earlier marker is
\* detached with it, and replacing it in its detached parent leaves the
\* document alone.  So each step handles the first marker still in the
\* document: it becomes a text node and its parent is normalized.
\* parent.replaceChild(document.createTextNode(el.textContent || ""), el)
ReplaceByText(root, el) ==
  Splice(root, el, <<TextNode(TextContent(NodeAt(root, el)))>>)

\* parent.normalize()
NormalizeAt(root, parent) ==
  ReplaceNode(root, parent, Normalize(NodeAt(root, parent)))

RECURSIVE UnwindFrom(_, _)
UnwindFrom(root, ms) ==
  IF ms = <<>> THEN root
  ELSE LET next == NormalizeAt(ReplaceByText(root, ms[1]), ParentPath(ms[1]))
       IN  UnwindFrom(next, MarkerPaths(next))

\* A pass that leaves the markers of the previous pass in place.
UnwindMarkersSkipped(root) == root

UnwindMarkers(root) == UnwindFrom(root, MarkerPaths(root))

\* The body of highlights.forEach: try { ... } catch { console.warn }.
RestoreOne(root, highlight) ==
  LET element == getElementByXPath(root, highlight.xpath)
  IN  IF element.status = "ok"
      THEN highlightTextInElement(root, element.path, highlight)
      ELSE root

\* A pass without the try/catch around each record: the first record that
\* fails ends the pass, the records after it leave the document as it is.
RECURSIVE PassDocsAborting(_, _)
PassDocsAborting(d, hs) ==
  IF hs = <<>> THEN <<d>>
  ELSE IF RestoreOne(d, Head(hs)) = d
  THEN [k \in 1..(Len(hs) + 1) |-> d]
  ELSE <<d>> \o PassDocsAborting(RestoreOne(d, Head(hs)), Tail(hs))

\* The documents of a pass: PassDocs(d, hs)[k + 1] is the document after the
\* first k records of hs have been handled, starting from d.
RECURSIVE PassDocs(_, _)
PassDocs(d, hs) ==
  IF hs = <<>> THEN <<d>>
  ELSE <<d>> \o PassDocs(RestoreOne(d, Head(hs)), Tail(hs))

\* The markers are unwound before the store is read: when getByUrl throws,
\* the exception leaves renderHighlights with the markers removed.
renderHighlights(root, st, url) ==
  IF getByUrl(st, url).status = "ok"
  THEN Last(PassDocs(UnwindMarkers(root), getByUrl(st, url).value))
  ELSE UnwindMarkers(root)

(***************************************************************************)
(* Selection capture                                                       *)
(***************************************************************************)
\* String.prototype.trim() over the characters of the model: the space is
\* the only white space.
RECURSIVE TrimLeft(_)
TrimLeft(s) == IF s # <<>> /\ Head(s) = " " THEN TrimLeft(Tail(s)) ELSE s

RECURSIVE TrimRight(_)
TrimRight(s) ==
  IF s # <<>> /\ s[Len(s)] = " " THEN TrimRight(SubSeq(s, 1, Len(s) - 1)) ELSE s

trim(s) == TrimRight(TrimLeft(s))

\* Position of path p in the sequence of paths ps (0 if absent).
IndexOf(ps, p) ==
  IF \E i \in 1..Len(ps) : ps[i] = p
  THEN CHOOSE i \in 1..Len(ps) : ps[i] = p
  ELSE 0

\* A range is [sc, so, ec, eo]: start container (a path), start offset, end
\* container, end offset.  The ranges of the model have both boundary points
\* in text nodes, or both in the same element.
TextBetween(root, range, tps, i, j) ==
  substringFrom(NodeAt(root, range.sc).data, range.so)
    \o Flatten([k \in 1..(j - i - 1) |-> NodeAt(root, tps[i + k]).data])
    \o substring(NodeAt(root, range.ec).data, 0, range.eo)

TextAcross(root, range, tps) ==
  TextBetween(root, range, tps, IndexOf(tps, range.sc), IndexOf(tps, range.ec))

RangeText(root, range) ==
  IF NodeAt(root, range.sc).kind = "text"
  THEN IF range.sc = range.ec
       THEN substring(NodeAt(root, range.sc).data, range.so, range.eo)
       ELSE TextAcross(root, range, TextPaths(root))
  ELSE Flatten([k \in 1..(range.eo - range.so) |->
                 TextContent(NodeAt(root, range.sc).kids[range.so + k])])

isCollapsed(range) == range.sc = range.ec /\ range.so = range.eo

RECURSIVE CommonPrefix(_, _)
CommonPrefix(p, q) ==
  IF p # <<>> /\ q # <<>> /\ Head(p) = Head(q)
  THEN <<Head(p)>> \o CommonPrefix(Tail(p), Tail(q))
  ELSE <<>>

commonAncestorContainer(range) == CommonPrefix(range.sc, range.ec)

ElementPaths(root) ==
  {p \in SeqRange(AllPaths(root)) : NodeAt(root, p).kind = "elem"}

\* The ranges a user selects in the document: every range inside one text
\* node, the ranges from the start of one text node to the end of a later
\* one, and the ranges selecting all children of one element.
TextRanges(root, tps) ==
  UNION {UNION {{[sc |-> tp, so |-> a, ec |-> tp, eo |-> b] :
                   b \in a..Len(NodeAt(root, tp).data)} :
                a \in 0..Len(NodeAt(root, tp).data)} :
         tp \in SeqRange(tps)}
  \cup
  UNION {{[sc |-> tps[i], so |-> 0, ec |-> tps[j],
           eo |-> Len(NodeAt(root, tps[j]).data)] :
            j \in (i + 1)..Len(tps)} :
         i \in 1..Len(tps)}

Ranges(root) ==
  TextRanges(root, TextPaths(root))
  \cup
  {[sc |-> e, so |-> 0, ec |-> e, eo |-> Len(NodeAt(root, e).kids)] :
     e \in ElementPaths(root)}

(***************************************************************************)
(* Pages                                                                   *)
(***************************************************************************)
Page(bodyKids) == DocumentNode(<<Elem("html", <<Elem("body", bodyKids)>>)>>)

\* <p>abcde</p>
PagePlain ==
  Page(<<Elem("p", <<TextNode(<<"a", "b", "c", "d", "e">>)>>)>>)

\* <p>abcd<span>fgh</span></p>
PageNested ==
  Page(<<Elem("p", <<TextNode(<<"a", "b", "c", "d">>),
                     Elem("span", <<TextNode(<<"f", "g", "h">>)>>)>>)>>)

\* <p>a<br>bcdef</p>
PageBreak ==
  Page(<<Elem("p", <<TextNode(<<"a">>),
                     Elem("br", <<>>),
                     TextNode(<<"b", "c", "d", "e", "f">>)>>)>>)

\* A page built by script: <p>xyz<b>{"ab"}{"cd"}</b></p>, the b element holds
\* two adjacent text nodes.
PageScripted ==
  Page(<<Elem("p", <<TextNode(<<"x", "y", "z">>),
                     Elem("b", <<TextNode(<<"a", "b">>),
                                 TextNode(<<"c", "d">>)>>)>>)>>)

\* <p>abc <b>de</b></p>
PageSmall ==
  Page(<<Elem("p", <<TextNode(<<"a", "b", "c", " ">>),
                     Elem("b", <<TextNode(<<"d", "e">>)>>)>>)>>)

Pages == {PageSmall}

EnginePages == {PagePlain, PageNested, PageBreak, PageScripted}

(***************************************************************************)
(* State                                                                   *)
(***************************************************************************)
VARIABLES
  pristine,        \* the document the page URL serves
  doc,             \* the live document
  store,           \* the localStorage item "text_highlights"
  mounted,         \* the content script has run its effect
  isActivated,     \* the persisted activation flag
  hActivated,      \* isActivated as captured by the registered handlers
  timers,          \* pending setTimeout(renderHighlights, 100) callbacks
  msgs,            \* messages sent to the tab, not yet delivered
  showTooltip,
  activeHighlight, \* a record, or NoHighlight
  result,          \* the call the last step made, and its outcome
  probe,           \* the node last encoded, its address, the last decoding
  now,             \* Date.now()
  selectedColor,   \* the palette color selected in the toolbar
  hColor,          \* selectedColor as captured by the registered handlers
  toggles,         \* TOGGLE_ACTIVATION messages delivered so far, modulo 2
  staleSeen,       \* the last REFRESH_HIGHLIGHTS found a marker without a record
  popupActivated   \* the popup's flag, its localStorage item "highlighter_activated"

vars == <<pristine, doc, store, mounted, isActivated, hActivated, timers,
          msgs, showTooltip, activeHighlight, result, probe, now, selectedColor,
          hColor, toggles, staleSeen, popupActivated>>

NoHighlight == [id |-> ""]

\* No store operation has been called directly.
NoCall ==
  [op |-> "none", id |-> "", url |-> "", highlight |-> NoHighlight,
   updates |-> [note |-> ""], before |-> NoItem, out |-> Return(<<>>, NoItem)]

\* No node has been encoded.
NoProbe ==
  [status |-> "none", input |-> "none", node |-> <<>>, address |-> <<>>,
   found |-> [status |-> "null", path |-> <<>>],
   edits |-> 0, lastEdit |-> "none"]

InitWith(pages, activated) ==
  /\ pristine \in pages
  /\ doc = pristine
  /\ store = NoItem
  /\ mounted = FALSE
  /\ isActivated = activated
  /\ popupActivated = activated
  /\ hActivated = FALSE
  /\ timers = 0
  /\ msgs = <<>>
  /\ showTooltip = FALSE
  /\ activeHighlight = NoHighlight
  /\ result = NoCall
  /\ probe = NoProbe
  /\ now = 0
  /\ selectedColor = DefaultColor
  /\ hColor = DefaultColor
  /\ toggles = 0
  /\ staleSeen = FALSE

\* A first visit: the activation flag has never been stored.
Init == InitWith(Pages, FALSE)

\* A visit with capture activated in an earlier session.
InitEngine == InitWith(EnginePages, TRUE)

(***************************************************************************)
(* Content script                                                          *)
(***************************************************************************)
\* A first run of the effect that renders only while capture is activated.
MountWhenActivated ==
  /\ ~mounted
  /\ getByUrl(store, PageUrl).status = "ok"
  /\ mounted' = TRUE
  /\ hActivated' = isActivated
  /\ hColor' = selectedColor
  /\ doc' = IF isActivated THEN renderHighlights(doc, store, PageUrl) ELSE doc
  /\ result' = [NoCall EXCEPT !.op = "mount"]
  /\ UNCHANGED <<popupActivated, probe, now, selectedColor, toggles, staleSeen, pristine,
                 store, isActivated, timers, msgs, showTooltip, activeHighlight>>

\* useEffect, first run: renders the stored highlights and registers the
\* handlers, which capture the isActivated of this render.  When
\* renderHighlights throws, the effect ends before it registers anything.
Mount ==
  /\ ~mounted
  /\ getByUrl(store, PageUrl).status = "ok"
  /\ mounted' = TRUE
  /\ hActivated' = isActivated
  /\ hColor' = selectedColor
  /\ doc' = renderHighlights(doc, store, PageUrl)
  /\ result' = [NoCall EXCEPT !.op = "mount"]
  /\ UNCHANGED <<popupActivated, probe, now, selectedColor, toggles, staleSeen, pristine, store, isActivated, timers, msgs, showTooltip,
                 activeHighlight>>

\* useEffect cleanup and re-run after a render with a changed isActivated.
EffectRerun ==
  /\ mounted
  /\ hActivated # isActivated
  /\ hActivated' = isActivated
  /\ hColor' = selectedColor
  /\ doc' = renderHighlights(doc, store, PageUrl)
  /\ result' = NoCall
  /\ UNCHANGED <<popupActivated, probe, now, selectedColor, toggles, staleSeen, pristine, store, mounted, isActivated, timers, msgs,
                 showTooltip, activeHighlight>>

\* The popup sends a message to the active tab: TOGGLE_ACTIVATION from
\* handleToggleActivation, which first flips the popup's own flag and
\* stores it, REFRESH_HIGHLIGHTS from handleDelete.
PopupSend(type) ==
  /\ Len(msgs) < MaxMessages
  /\ msgs' = Append(msgs, type)
  /\ popupActivated' = IF type = "TOGGLE_ACTIVATION" THEN ~popupActivated
                       ELSE popupActivated
  /\ result' = NoCall
  /\ UNCHANGED <<probe, now, selectedColor, hColor, toggles, staleSeen, pristine, doc, store, mounted, isActivated, hActivated,
                 timers, showTooltip, activeHighlight>>

\* A handler that knows the toggle message only.
handleMessageToggleOnly(message) ==
  IF message = "TOGGLE_ACTIVATION"
  THEN /\ isActivated' = ~hActivated
       /\ showTooltip' = IF hActivated THEN FALSE ELSE showTooltip
       /\ UNCHANGED doc
  ELSE UNCHANGED <<doc, isActivated, showTooltip>>

handleMessage(message) ==
  IF message = "TOGGLE_ACTIVATION"
  THEN LET newState == ~hActivated
       IN  /\ isActivated' = newState
           /\ showTooltip' = IF ~newState THEN FALSE ELSE showTooltip
           /\ UNCHANGED doc
  ELSE IF message = "REFRESH_HIGHLIGHTS"
  THEN /\ doc' = renderHighlights(doc, store, PageUrl)
       /\ UNCHANGED <<isActivated, showTooltip>>
  ELSE UNCHANGED <<doc, isActivated, showTooltip>>

\* The ids of the markers of the document that are not the id of a record
\* stored for the page URL.
StaleIds(root, st) ==
  {NodeAt(root, p).hid : p \in SeqRange(MarkerPaths(root))}
    \ {h.id : h \in SeqRange(SelectSeq(Records(st), LAMBDA h : h.url = PageUrl))}

DeliverMessage ==
  /\ mounted
  /\ msgs # <<>>
  /\ handleMessage(Head(msgs))
  /\ msgs' = Tail(msgs)
  /\ toggles' = IF Head(msgs) = "TOGGLE_ACTIVATION" THEN 1 - toggles ELSE toggles
  /\ staleSeen' = IF Head(msgs) = "REFRESH_HIGHLIGHTS"
                  THEN StaleIds(doc, store) # {}
                  ELSE staleSeen
  /\ result' = NoCall
  /\ UNCHANGED <<popupActivated, probe, now, selectedColor, hColor, pristine, store, mounted, hActivated, timers, activeHighlight>>

\* A message sent while no listener is registered in the tab is lost.
DropMessage ==
  /\ ~mounted
  /\ msgs # <<>>
  /\ msgs' = Tail(msgs)
  /\ result' = NoCall
  /\ UNCHANGED <<popupActivated, probe, now, selectedColor, hColor, toggles, staleSeen, pristine, doc, store, mounted, isActivated, hActivated,
                 timers, showTooltip, activeHighlight>>

\* Math.random().toString(36).substr(2, 9): the id drawn is the id of a
\* stored record or an id no stored record has.  Ids are opaque, so the ids
\* no record has are represented by the first of them.
RECURSIVE FirstUnused(_, _)
FirstUnused(st, k) ==
  IF \E i \in 1..Len(st) : st[i].id = IdName[k]
  THEN FirstUnused(st, k + 1)
  ELSE IdName[k]

DrawnIds(st) == {st[i].id : i \in 1..Len(st)} \cup {FirstUnused(st, 1)}

\* The record handleMouseUp hands to handleSaveHighlight, completed with the
\* id drawn by Math.random.
NewHighlight(root, range, id) ==
  [id |-> id,
   url |-> PageUrl,
   text |-> trim(RangeText(root, range)),
   note |-> "",
   startOffset |-> range.so,
   endOffset |-> range.eo,
   xpath |-> generateXPath(root, commonAncestorContainer(range)),
   timestamp |-> now,
   color |-> hColor]

\* A capture without the check that the selection lies in one text node.
QualifiesAnyContainer(root, range) ==
  /\ hActivated
  /\ ~isCollapsed(range)
  /\ Len(trim(RangeText(root, range))) >= MinTextLength

\* A capture without the tests of the selection and of its length.
QualifiesAnyLength(root, range) ==
  /\ hActivated
  /\ NodeAt(root, range.sc).kind = "text"
  /\ range.sc = range.ec

\* The conditions under which handleMouseUp reaches handleSaveHighlight.
Qualifies(root, range) ==
  /\ hActivated
  /\ ~isCollapsed(range)
  /\ Len(trim(RangeText(root, range))) >= MinTextLength
  /\ NodeAt(root, range.sc).kind = "text"
  /\ range.sc = range.ec

\* The user selects range and releases the pointer.  When save throws, the
\* handler ends with nothing written and no timer set.
handleMouseUp(range) ==
  /\ mounted
  /\ IF Qualifies(doc, range) /\ HasArray(store)
     THEN /\ Len(Records(store)) < MaxRecords
          /\ timers < MaxTimers
          /\ \E id \in DrawnIds(Records(store)) :
               /\ store' = save(store, NewHighlight(doc, range, id)).item
               /\ result' = [NoCall EXCEPT
                               !.op = "save",
                               !.highlight = NewHighlight(doc, range, id)]
          /\ timers' = timers + 1
          /\ UNCHANGED <<popupActivated, probe, now, selectedColor, hColor, toggles, staleSeen, pristine, doc, mounted, isActivated, hActivated, msgs,
                         showTooltip, activeHighlight>>
     ELSE UNCHANGED vars

\* A handler that opens the tooltip only while capture is activated.
handleClickWhenActivated(target) ==
  /\ mounted
  /\ NodeAt(doc, target).kind = "elem"
  /\ IF IsMarker(NodeAt(doc, target)) /\ hActivated
     THEN LET highlightId == NodeAt(doc, target).hid
              found == SelectSeq(Records(store), LAMBDA h : h.id = highlightId)
          IN  IF highlightId # "" /\ found # <<>>
              THEN /\ activeHighlight' = Head(found)
                   /\ showTooltip' = TRUE
              ELSE UNCHANGED <<activeHighlight, showTooltip>>
     ELSE /\ showTooltip' = FALSE
          /\ UNCHANGED activeHighlight
  /\ result' = [NoCall EXCEPT
                  !.op = IF IsMarker(NodeAt(doc, target)) THEN "clickMarker"
                         ELSE "click",
                  !.id = NodeAt(doc, target).hid]
  /\ UNCHANGED <<popupActivated, probe, now, selectedColor, hColor, toggles, staleSeen, pristine,
                 doc, store, mounted, isActivated, hActivated, timers, msgs>>

\* The click handled last: whether its target has the marker class, and
\* the target's data-highlight-id.
Clicked(el) ==
  [NoCall EXCEPT !.op = IF IsMarker(el) THEN "clickMarker" ELSE "click",
                 !.id = el.hid]

\* A click on the element at path target.
handleClick(target) ==
  /\ mounted
  /\ NodeAt(doc, target).kind = "elem"
  /\ IF IsMarker(NodeAt(doc, target))
     THEN LET highlightId == NodeAt(doc, target).hid
              found == SelectSeq(Records(store), LAMBDA h : h.id = highlightId)
          IN  IF highlightId # "" /\ found # <<>>
              THEN /\ activeHighlight' = Head(found)
                   /\ showTooltip' = TRUE
              ELSE UNCHANGED <<activeHighlight, showTooltip>>
     ELSE /\ showTooltip' = FALSE
          /\ UNCHANGED activeHighlight
  /\ result' = Clicked(NodeAt(doc, target))
  /\ UNCHANGED <<popupActivated, probe, now, selectedColor, hColor, toggles, staleSeen, pristine, doc, store, mounted, isActivated, hActivated,
                 timers, msgs>>

\* A delete button that leaves the markers to the next pass.
TooltipDeleteStoreOnly ==
  /\ mounted
  /\ showTooltip
  /\ activeHighlight # NoHighlight
  /\ delete(store, activeHighlight.id).status = "ok"
  /\ store' = delete(store, activeHighlight.id).item
  /\ showTooltip' = FALSE
  /\ result' = [NoCall EXCEPT !.op = "delete", !.id = activeHighlight.id]
  /\ UNCHANGED <<popupActivated, probe, now, selectedColor, hColor, toggles, staleSeen, pristine,
                 doc, mounted, isActivated, hActivated, timers, msgs,
                 activeHighlight>>

\* The tooltip's delete button, confirmed: handleDeleteHighlight, then onClose.
TooltipDelete ==
  /\ mounted
  /\ showTooltip
  /\ activeHighlight # NoHighlight
  /\ delete(store, activeHighlight.id).status = "ok"
  /\ store' = delete(store, activeHighlight.id).item
  /\ showTooltip' = FALSE
  /\ doc' = renderHighlights(doc, store', PageUrl)
  /\ result' = [NoCall EXCEPT !.op = "delete", !.id = activeHighlight.id]
  /\ UNCHANGED <<popupActivated, probe, now, selectedColor, hColor, toggles, staleSeen, pristine, mounted, isActivated, hActivated, timers, msgs,
                 activeHighlight>>

\* A timeout that is cleared before it fires.
TimerCleared ==
  /\ mounted
  /\ timers > 0
  /\ timers' = timers - 1
  /\ result' = NoCall
  /\ UNCHANGED <<popupActivated, probe, now, selectedColor, hColor, toggles, staleSeen, pristine,
                 doc, store, mounted, isActivated, hActivated, msgs,
                 showTooltip, activeHighlight>>

\* A timeout set by handleSaveHighlight fires: renderHighlights reads the
\* records of the page and restores them.
TimerFire ==
  /\ mounted
  /\ timers > 0
  /\ timers' = timers - 1
  /\ doc' = renderHighlights(doc, store, PageUrl)
  /\ result' = [NoCall EXCEPT !.op = "timer", !.out = getByUrl(store, PageUrl)]
  /\ UNCHANGED <<popupActivated, probe, now, selectedColor, hColor, toggles, staleSeen, pristine, store, mounted, isActivated, hActivated, msgs,
                 showTooltip, activeHighlight>>

\* The page is loaded again: a fresh document, no content script state.
Reload ==
  /\ mounted
  /\ doc' = pristine
  /\ mounted' = FALSE
  /\ hActivated' = FALSE
  /\ timers' = 0
  /\ showTooltip' = FALSE
  /\ activeHighlight' = NoHighlight
  /\ selectedColor' = DefaultColor
  /\ hColor' = DefaultColor
  /\ result' = NoCall
  /\ UNCHANGED <<popupActivated, probe, now, toggles, staleSeen, pristine, store, isActivated, msgs>>

\* The tooltip's save button: handleSave of the tooltip with the note typed,
\* then handleUpdateHighlight.  The markers are not rendered again.
TooltipSave(note) ==
  /\ mounted
  /\ showTooltip
  /\ activeHighlight # NoHighlight
  /\ update(store, activeHighlight.id, [note |-> note]).status = "ok"
  /\ store' = update(store, activeHighlight.id, [note |-> note]).item
  /\ activeHighlight' = merge(activeHighlight, [note |-> note])
  /\ result' = [NoCall EXCEPT !.op = "update", !.id = activeHighlight.id,
                              !.updates = [note |-> note]]
  /\ UNCHANGED <<popupActivated, probe, now, selectedColor, hColor, toggles, staleSeen,
                 pristine, doc, mounted, isActivated, hActivated, timers, msgs,
                 showTooltip>>

\* A color of the toolbar's palette is clicked.  The toolbar is rendered
\* while showToolbar holds, which the effect and handleMessage keep equal to
\* the activation flag.
ColorChange(color) ==
  /\ mounted
  /\ isActivated
  /\ color # selectedColor
  /\ selectedColor' = color
  /\ result' = NoCall
  /\ UNCHANGED <<popupActivated, probe, now, hColor, toggles, staleSeen, pristine, doc,
                 store, mounted, isActivated, hActivated, timers, msgs,
                 showTooltip, activeHighlight>>

\* Time passes.
Tick ==
  /\ now < MaxClock
  /\ now' = now + 1
  /\ result' = NoCall
  /\ UNCHANGED <<popupActivated, probe, selectedColor, hColor, toggles, staleSeen,
                 pristine, doc, store, mounted, isActivated, hActivated, timers,
                 msgs, showTooltip, activeHighlight>>

\* The content script of another tab that shows the same page deletes a
\* record through its tooltip: localStorage is shared by the tabs of an
\* origin, the document of this tab is not touched.
OtherTabDelete(id) ==
  /\ \E i \in 1..Len(Records(store)) : Records(store)[i].id = id
  /\ delete(store, id).status = "ok"
  /\ store' = delete(store, id).item
  /\ staleSeen' = FALSE
  /\ result' = NoCall
  /\ UNCHANGED <<popupActivated, probe, now, selectedColor, hColor, toggles, pristine,
                 doc, mounted, isActivated, hActivated, timers, msgs,
                 showTooltip, activeHighlight>>

Next ==
  \/ Mount
  \/ EffectRerun
  \/ \E type \in {"TOGGLE_ACTIVATION", "REFRESH_HIGHLIGHTS"} : PopupSend(type)
  \/ DeliverMessage
  \/ DropMessage
  \/ \E range \in Ranges(doc) : handleMouseUp(range)
  \/ \E target \in ElementPaths(doc) : handleClick(target)
  \/ TooltipDelete
  \/ TimerFire
  \/ Reload

Spec == Init /\ [][Next]_vars

\* The behaviours in which the popup sends no message.
NextEngine ==
  \/ Mount
  \/ \E range \in Ranges(doc) : handleMouseUp(range)
  \/ \E target \in ElementPaths(doc) : handleClick(target)
  \/ TooltipDelete
  \/ TimerFire
  \/ Reload

SpecEngine == InitEngine /\ [][NextEngine]_vars

\* A visit with capture activated in an earlier session, on the small page.
InitLife == InitWith(Pages, TRUE)

\* The life of the records: capture with the toolbar's palette and the
\* clock, the tooltip's note editor and delete button, reloads.
NextLife ==
  \/ Mount
  \/ \E range \in Ranges(doc) : handleMouseUp(range)
  \/ \E target \in ElementPaths(doc) : handleClick(target)
  \/ \E note \in Notes : TooltipSave(note)
  \/ TooltipDelete
  \/ \E color \in Palette : ColorChange(color)
  \/ Tick
  \/ TimerFire
  \/ Reload

SpecLife == InitLife /\ [][NextLife]_vars

\* Captures, deletes and reloads, in which a timeout that stays pending fires: the
\* browser runs the callback of setTimeout(renderHighlights, 100) unless the
\* page is unloaded first.
NextTimer ==
  \/ Mount
  \/ \E range \in Ranges(doc) : handleMouseUp(range)
  \/ \E target \in ElementPaths(doc) : handleClick(target)
  \/ TooltipDelete
  \/ Tick
  \/ TimerFire
  \/ Reload

\* The step of a timeout's callback, told by the count of pending timeouts:
\* while the page stays loaded nothing else lowers it.
TimerStep ==
  mounted /\ timers > 0 /\ timers' = timers - 1 /\ mounted' = mounted

SpecTimer == InitLife /\ [][NextTimer]_vars /\ WF_timers(TimerStep)

\* The refresh message and a second tab that deletes records.
NextRefresh ==
  \/ Mount
  \/ \E range \in Ranges(doc) : handleMouseUp(range)
  \/ TimerFire
  \/ \E id \in SeqRange(IdName) : OtherTabDelete(id)
  \/ PopupSend("REFRESH_HIGHLIGHTS")
  \/ DeliverMessage
  \/ DropMessage
  \/ Reload

SpecRefresh == InitLife /\ [][NextRefresh]_vars

(***************************************************************************)
(* The store operations called one by one                                  *)
(***************************************************************************)
MaxStored == 2

\* A URL that differs from the page URL in its last character only.
OtherUrl == "https://a.example/page/"

\* A URL no record has.
UnusedUrl == "https://b.example/"

\* Records as handleMouseUp builds them, "abc" selected in <p>abcde</p>,
\* saved without a color: the field is optional, "" stands for none.
SampleRecord(id, url) ==
  [id |-> id, url |-> url, text |-> <<"a", "b", "c">>, note |-> "",
   startOffset |-> 0, endOffset |-> 3,
   xpath |-> generateXPath(PagePlain, <<1, 1, 1>>), timestamp |-> 0,
   color |-> ""]

SampleRecords == {SampleRecord("h1", PageUrl), SampleRecord("h2", OtherUrl)}

SampleIds == {"h1", "h2", "h3"}

\* The partial records the tooltip passes to update, and one that also
\* gives a color.
SampleUpdates == {[note |-> "n"], [note |-> "n", color |-> "#bbf7d0"]}

Call(op, out) ==
  [op |-> op, id |-> "", url |-> "", highlight |-> NoHighlight,
   updates |-> [note |-> ""], before |-> store, out |-> out]

StoreFrame ==
  UNCHANGED <<pristine, mounted, isActivated, hActivated, timers, msgs,
              showTooltip, activeHighlight, probe, now, selectedColor, hColor,
              toggles, staleSeen, popupActivated>>

CallSave(highlight) ==
  /\ Len(Records(store)) < MaxStored
  /\ result' = [Call("save", save(store, highlight)) EXCEPT
                  !.highlight = highlight]
  /\ store' = save(store, highlight).item
  /\ UNCHANGED doc
  /\ StoreFrame

CallDelete(id) ==
  /\ result' = [Call("delete", delete(store, id)) EXCEPT !.id = id]
  /\ store' = delete(store, id).item
  /\ UNCHANGED doc
  /\ StoreFrame

CallUpdate(id, updates) ==
  /\ result' = [Call("update", update(store, id, updates)) EXCEPT
                  !.id = id, !.updates = updates]
  /\ store' = update(store, id, updates).item
  /\ UNCHANGED doc
  /\ StoreFrame

CallGetAll ==
  /\ result' = Call("getAll", getAll(store))
  /\ store' = getAll(store).item
  /\ UNCHANGED doc
  /\ StoreFrame

CallGetByUrl(url) ==
  /\ result' = [Call("getByUrl", getByUrl(store, url)) EXCEPT !.url = url]
  /\ store' = getByUrl(store, url).item
  /\ UNCHANGED doc
  /\ StoreFrame

\* renderHighlights called on the page: its outcome is that of its getByUrl
\* call, the only call of the pass outside the try/catch.
CallRender ==
  /\ result' = [Call("renderHighlights", getByUrl(store, PageUrl)) EXCEPT
                  !.url = PageUrl]
  /\ doc' = renderHighlights(doc, store, PageUrl)
  /\ UNCHANGED store
  /\ StoreFrame

\* A script of the page writes or removes the item.
PageWrites(item) ==
  /\ store # item
  /\ store' = item
  /\ result' = NoCall
  /\ UNCHANGED doc
  /\ StoreFrame

InitStore ==
  /\ pristine = PagePlain
  /\ doc = pristine
  /\ store = NoItem
  /\ mounted = FALSE
  /\ isActivated = FALSE
  /\ hActivated = FALSE
  /\ timers = 0
  /\ msgs = <<>>
  /\ showTooltip = FALSE
  /\ activeHighlight = NoHighlight
  /\ result = NoCall
  /\ probe = NoProbe
  /\ now = 0
  /\ selectedColor = DefaultColor
  /\ hColor = DefaultColor
  /\ toggles = 0
  /\ staleSeen = FALSE
  /\ popupActivated = FALSE

NextStore ==
  \/ \E highlight \in SampleRecords : CallSave(highlight)
  \/ \E id \in SampleIds : CallDelete(id)
  \/ \E id \in SampleIds : \E updates \in SampleUpdates : CallUpdate(id, updates)
  \/ CallGetAll
  \/ \E url \in {PageUrl, OtherUrl, UnusedUrl} : CallGetByUrl(url)
  \/ CallRender
  \/ \E item \in {NoItem, EmptyItem, NonArrayItem, InvalidItem} : PageWrites(item)

SpecStore == InitStore /\ [][NextStore]_vars

(***************************************************************************)
(* The restoration pass run on the stores earlier sessions can leave       *)
(***************************************************************************)
\* The length of the longest text of an element of the pages.
MaxTextLength == 7

\* The elements of root that have a text node among their children: the
\* elements handleMouseUp takes the address of.
TextElements(root) ==
  {ep \in ElementPaths(root) :
     \E i \in 1..Len(NodeAt(root, ep).kids) :
       NodeAt(root, ep).kids[i].kind = "text"}

\* A record for the characters [s, e) of the text of the element at ep.
PassRecord(root, ep, s, e, id) ==
  [id |-> id, url |-> PageUrl,
   text |-> trim(substring(TextContent(NodeAt(root, ep)), s, e)),
   note |-> "", startOffset |-> s, endOffset |-> e,
   xpath |-> generateXPath(root, ep), timestamp |-> 0, color |-> ""]

\* The records with the given id for the non-empty ranges of the text
\* elements of root.
PassRecordsOf(root, id) ==
  UNION {{PassRecord(root, ep, s, e, id) :
            s \in 0..(e - 1)} :
         <<ep, e>> \in {<<q, n>> \in TextElements(root) \X (1..MaxTextLength) :
                          n <= Len(TextContent(NodeAt(root, q)))}}

Disjoint(g, h) ==
  g.endOffset <= h.startOffset \/ h.endOffset <= g.startOffset

\* The lists of records the pass is run on: every list of one or two
\* records, and the lists of three records of one element whose ranges are
\* pairwise disjoint.
PassStores(root) ==
  {<<a>> : a \in PassRecordsOf(root, "h1")}
  \cup {<<a, b>> : <<a, b>> \in PassRecordsOf(root, "h1")
                                   \X PassRecordsOf(root, "h2")}
  \cup {<<a, b, c>> : <<a, b, c>> \in
          {t \in PassRecordsOf(root, "h1") \X PassRecordsOf(root, "h2")
                   \X PassRecordsOf(root, "h3") :
             /\ t[1].xpath = t[2].xpath /\ t[2].xpath = t[3].xpath
             /\ Disjoint(t[1], t[2]) /\ Disjoint(t[1], t[3])
             /\ Disjoint(t[2], t[3])}}

\* A visit of a page for which earlier sessions have left records.
InitPass ==
  /\ pristine \in EnginePages
  /\ doc = pristine
  /\ store \in {stringify(hs) : hs \in PassStores(pristine)}
  /\ mounted = FALSE
  /\ isActivated = FALSE
  /\ hActivated = FALSE
  /\ timers = 0
  /\ msgs = <<>>
  /\ showTooltip = FALSE
  /\ activeHighlight = NoHighlight
  /\ result = NoCall
  /\ probe = NoProbe
  /\ now = 0
  /\ selectedColor = DefaultColor
  /\ hColor = DefaultColor
  /\ toggles = 0
  /\ staleSeen = FALSE
  /\ popupActivated = FALSE

\* The content script starts and runs its pass; the page is loaded again.
NextPass ==
  \/ Mount
  \/ Reload

SpecPass == InitPass /\ [][NextPass]_vars

(***************************************************************************)
(* The address codec called on a document that scripts edit                *)
(***************************************************************************)
MaxEdits == 1

\* <p>ab</p><!-- --><svg><text>cd</text></svg><p><b>ef</b></p>
PageCodec ==
  Page(<<Elem("p", <<TextNode(<<"a", "b">>)>>),
         CommentNode,
         SvgElem("svg", <<SvgElem("text", <<TextNode(<<"c", "d">>)>>)>>),
         Elem("p", <<Elem("b", <<TextNode(<<"e", "f">>)>>)>>)>>)

\* The nodes a script inserts.
NewNodes == {TextNode(<<"q">>), Elem("p", <<>>), Elem("div", <<>>)}

\* parent.insertBefore(node, parent.childNodes[pos])
RECURSIVE InsertAt(_, _, _, _)
InsertAt(n, parent, pos, node) ==
  IF parent = <<>>
  THEN [n EXCEPT !.kids = SubSeq(n.kids, 1, pos - 1) \o <<node>>
                          \o SubSeq(n.kids, pos, Len(n.kids))]
  ELSE [n EXCEPT !.kids[parent[1]] =
                   InsertAt(n.kids[parent[1]], Tail(parent), pos, node)]

\* The path p is a proper prefix of the path q: p is an ancestor of q.
IsAncestor(p, q) == Len(p) < Len(q) /\ SubSeq(q, 1, Len(p)) = p

\* The path of the node at path node after an insertion at pos below parent.
ShiftInsert(node, parent, pos) ==
  IF IsAncestor(parent, node) /\ node[Len(parent) + 1] >= pos
  THEN [node EXCEPT ![Len(parent) + 1] = @ + 1]
  ELSE node

\* The path of the node at path node after the removal of the node at p.
ShiftRemove(node, p) ==
  IF IsAncestor(ParentPath(p), node) /\ node[Len(p)] > p[Len(p)]
  THEN [node EXCEPT ![Len(p)] = @ - 1]
  ELSE node

\* The node m, a child of parent at position pos, is an element with the
\* node name of the ancestor-or-self of node among parent's children, at or
\* before it: the nodes generateXPath counts for that ancestor's index.
CountedFor(root, node, parent, pos, m) ==
  /\ m.kind = "elem"
  /\ IsAncestor(parent, node)
  /\ pos <= node[Len(parent) + 1]
  /\ nodeName(m) = nodeName(NodeAt(root, SubSeq(node, 1, Len(parent) + 1)))

CodecFrame ==
  UNCHANGED <<pristine, store, mounted, isActivated, hActivated, timers, msgs,
              showTooltip, activeHighlight, result, now, selectedColor, hColor,
              toggles, staleSeen, popupActivated>>

\* generateXPath(node) for the node at path p.
Encode(p) ==
  /\ probe' = [probe EXCEPT
                 !.status = "encoded",
                 !.input = NodeAt(doc, p).kind,
                 !.node = IF NodeAt(doc, p).kind = "text" THEN ParentPath(p) ELSE p,
                 !.address = generateXPath(doc, p),
                 !.found = NoProbe.found,
                 !.lastEdit = "none"]
  /\ UNCHANGED doc
  /\ CodecFrame

\* getElementByXPath(address) for the address last encoded.
Decode ==
  /\ probe.status = "encoded"
  /\ probe' = [probe EXCEPT
                 !.status = "decoded",
                 !.found = getElementByXPath(doc, probe.address)]
  /\ UNCHANGED doc
  /\ CodecFrame

\* A script inserts the node m below parent at position pos.
InsertNode(parent, pos, m) ==
  /\ probe.edits < MaxEdits
  /\ doc' = InsertAt(doc, parent, pos, m)
  /\ probe' = [probe EXCEPT
                 !.status = IF @ = "none" THEN "none" ELSE "encoded",
                 !.node = ShiftInsert(@, parent, pos),
                 !.found = NoProbe.found,
                 !.edits = @ + 1,
                 !.lastEdit = IF CountedFor(doc, probe.node, parent, pos, m)
                              THEN "counted" ELSE "other"]
  /\ CodecFrame

\* A script removes the node at path p, which is not the encoded node nor
\* one of its ancestors.
RemoveNode(p) ==
  /\ probe.edits < MaxEdits
  /\ p # <<>>
  /\ p # probe.node
  /\ ~IsAncestor(p, probe.node)
  /\ doc' = Splice(doc, p, <<>>)
  /\ probe' = [probe EXCEPT
                 !.status = IF @ = "none" THEN "none" ELSE "encoded",
                 !.node = ShiftRemove(@, p),
                 !.found = NoProbe.found,
                 !.edits = @ + 1,
                 !.lastEdit = IF CountedFor(doc, probe.node, ParentPath(p),
                                            p[Len(p)], NodeAt(doc, p))
                              THEN "counted" ELSE "other"]
  /\ CodecFrame

InitCodec ==
  /\ pristine = PageCodec
  /\ doc = pristine
  /\ store = NoItem
  /\ mounted = FALSE
  /\ isActivated = FALSE
  /\ hActivated = FALSE
  /\ timers = 0
  /\ msgs = <<>>
  /\ showTooltip = FALSE
  /\ activeHighlight = NoHighlight
  /\ result = NoCall
  /\ probe = NoProbe
  /\ now = 0
  /\ selectedColor = DefaultColor
  /\ hColor = DefaultColor
  /\ toggles = 0
  /\ staleSeen = FALSE
  /\ popupActivated = FALSE

NextCodec ==
  \/ \E p \in SeqRange(AllPaths(doc)) : Encode(p)
  \/ Decode
  \/ \E parent \in ElementPaths(doc) :
       \E pos \in 1..(Len(NodeAt(doc, parent).kids) + 1) :
         \E m \in NewNodes : InsertNode(parent, pos, m)
  \/ \E p \in SeqRange(AllPaths(doc)) : RemoveNode(p)

SpecCodec == InitCodec /\ [][NextCodec]_vars

(***************************************************************************)
(* Observations of a restoration pass                                      *)
(***************************************************************************)
NumMarkers(root) == Len(MarkerPaths(root))

\* The number of markers of root with highlight id `id` and text t.
CountOf(root, id, t) ==
  Cardinality({p \in SeqRange(MarkerPaths(root)) :
                 /\ NodeAt(root, p).hid = id
                 /\ TextContent(NodeAt(root, p)) = t})

MarkerTexts(root) ==
  {TextContent(NodeAt(root, p)) : p \in SeqRange(MarkerPaths(root))}

\* The step from d to e inserted one marker, carrying id and the text t.
RestoredWith(d, e, id, t) ==
  /\ NumMarkers(e) = NumMarkers(d) + 1
  /\ CountOf(e, id, t) = CountOf(d, id, t) + 1

\* The number of characters of n before its descendant at path p.
RECURSIVE TextBefore(_, _)
TextBefore(n, p) ==
  IF p = <<>> THEN 0
  ELSE Len(Flatten([k \in 1..(p[1] - 1) |-> TextContent(n.kids[k])]))
         + TextBefore(n.kids[p[1]], Tail(p))

\* Some text node of the element el covers the characters [s, e) of el's text.
InOneTextNode(el, s, e) ==
  \E tp \in SeqRange(TextPaths(el)) :
    /\ TextBefore(el, tp) <= s
    /\ e <= TextBefore(el, tp) + Len(NodeAt(el, tp).data)

\* Some element of root has the address xpath.
Addressed(root, xpath) ==
  \E p \in ElementPaths(root) : generateXPath(root, p) = xpath

\* The records and documents of the pass that would run now.
PassRecords == SelectSeq(Records(store), LAMBDA h : h.url = PageUrl)
PassNow == PassDocs(UnwindMarkers(doc), PassRecords)

\* The document without its markers: each marker replaced by its children.
RECURSIVE StripMarkers(_)
StripMarkers(n) ==
  IF n.kind = "text" THEN n
  ELSE [n EXCEPT !.kids =
          Flatten([i \in 1..Len(n.kids) |->
                     IF IsMarker(n.kids[i])
                     THEN StripMarkers(n.kids[i]).kids
                     ELSE <<StripMarkers(n.kids[i])>>])]

(***************************************************************************)
(* Claims                                                                  *)
(***************************************************************************)
StartOf(h) == h.startOffset
EndOf(h) == h.endOffset

\* Step k of a pass inserted a marker for record hs[k] whose text, trimmed,
\* is the text the record was captured with.
StepRestoresCapture(docs, hs, k) ==
  \E t \in MarkerTexts(docs[k + 1]) :
    /\ RestoredWith(docs[k], docs[k + 1], hs[k].id, t)
    /\ trim(t) = hs[k].text

CapturesRestored(docs, hs) ==
  \A k \in 1..Len(hs) : StepRestoresCapture(docs, hs, k)

\* C1: every stored record (each was captured from a selection inside one
\* text node) is restored by a pass on the document with a marker whose text
\* is the selected text, wherever the text node lies in its element and
\* whether or not markers were present at capture time.
C1_CapturedSelectionIsRestored == CapturesRestored(PassNow, PassRecords)

\* The markers of the document in document order: id, text and position in
\* the character stream.
MarkerView(root) ==
  [i \in 1..NumMarkers(root) |->
     [hid |-> NodeAt(root, MarkerPaths(root)[i]).hid,
      text |-> TextContent(NodeAt(root, MarkerPaths(root)[i])),
      at |-> TextBefore(root, MarkerPaths(root)[i])]]

\* The records of a pass that got a marker, by position in the batch.
RestoredSteps(docs) == {k \in 1..(Len(docs) - 1) : docs[k + 1] # docs[k]}

SamePasses(first, second) ==
  /\ TextContent(Last(second)) = TextContent(Last(first))
  /\ RestoredSteps(second) = RestoredSteps(first)
  /\ MarkerView(Last(second)) = MarkerView(Last(first))
  /\ NumMarkers(Last(second)) = Cardinality(RestoredSteps(second))

SecondPass(first) == PassDocs(UnwindMarkers(Last(first)), PassRecords)

SecondPassSame(first) == SamePasses(first, SecondPass(first))

\* C2: a second restoration pass over the same records ends with the text
\* and the markers of the first, restores the records the first restored and
\* leaves one marker for each of them.
C2_RestorationIdempotent == SecondPassSame(PassNow)

NoEmptyText(root) ==
  \A p \in SeqRange(TextPaths(root)) : NodeAt(root, p).data # <<>>

\* C3: after any number of passes the character stream of the document is
\* the stream of the page as loaded; apart from the markers, which only cut
\* text nodes in pieces, every element has the children it had, and no empty
\* text node has been inserted.
C3_TextPreserved ==
  /\ TextContent(doc) = TextContent(pristine)
  /\ Normalize(StripMarkers(doc)) = Normalize(pristine)
  /\ NoEmptyText(doc)

\* A marker with text siblings on both sides.
SplitInThree(root) ==
  \E p \in SeqRange(MarkerPaths(root)) :
    LET par == NodeAt(root, ParentPath(p))
        i == p[Len(p)]
    IN  /\ 1 < i /\ i < Len(par.kids)
        /\ par.kids[i - 1].kind = "text"
        /\ par.kids[i + 1].kind = "text"

C3_Witness == SplitInThree(doc) /\ NumMarkers(doc) >= 2

\* Record h addresses an element of d and its range lies in one text node.
CoveredByOneNode(d, h) ==
  LET r == getElementByXPath(d, h.xpath)
  IN  /\ r.status = "ok"
      /\ StartOf(h) < EndOf(h)
      /\ InOneTextNode(NodeAt(d, r.path), StartOf(h), EndOf(h))

\* The step from d to e put the characters [startOffset, endOffset) of the
\* element's text in a marker and left the element's text as it was.
MarkedSubstring(d, e, h, ep) ==
  LET t == SubSeq(TextContent(NodeAt(d, ep)), StartOf(h) + 1, EndOf(h))
  IN  /\ RestoredWith(d, e, h.id, t)
      /\ TextContent(NodeAt(e, ep)) = TextContent(NodeAt(d, ep))
      /\ \E mp \in SeqRange(MarkerPaths(NodeAt(e, ep))) :
           /\ NodeAt(NodeAt(e, ep), mp).hid = h.id
           /\ TextContent(NodeAt(NodeAt(e, ep), mp)) = t
           /\ TextBefore(NodeAt(e, ep), mp) = StartOf(h)

SubstringsMarked(docs, hs) ==
  \A k \in 1..Len(hs) :
    CoveredByOneNode(docs[k], hs[k]) =>
      MarkedSubstring(docs[k], docs[k + 1], hs[k],
                      getElementByXPath(docs[k], hs[k].xpath).path)

\* C4: a record whose range lies inside one text node of the element its
\* xpath resolves to is restored with a marker holding the characters
\* [startOffset, endOffset) of the element's text, the text around it intact.
C4_MarkerIsSubstring == SubstringsMarked(PassNow, PassRecords)

\* A record restored from inside a text node that is not the first of its
\* element, with text left before and after the marker.
StrictlyInside(el, s, e) ==
  \E tp \in SeqRange(TextPaths(el)) :
    /\ 0 < TextBefore(el, tp)
    /\ TextBefore(el, tp) < s
    /\ e < TextBefore(el, tp) + Len(NodeAt(el, tp).data)

InnerStep(docs, hs) ==
  \E k \in 1..Len(hs) :
    /\ StartOf(hs[k]) < EndOf(hs[k])
    /\ getElementByXPath(docs[k], hs[k].xpath).status = "ok"
    /\ StrictlyInside(NodeAt(docs[k], getElementByXPath(docs[k], hs[k].xpath).path),
                      StartOf(hs[k]), EndOf(hs[k]))

C4_Witness == InnerStep(PassNow, PassRecords)

AbsentLeftAlone(docs, hs) ==
  \A k \in 1..Len(hs) :
    ~Addressed(docs[k], hs[k].xpath) => docs[k + 1] = docs[k]

\* C5: a record whose xpath addresses no element of the document leaves the
\* document as it is.
C5_AbsentElementUnchanged == AbsentLeftAlone(PassNow, PassRecords)

SomeAbsent(docs, hs) ==
  \E k \in 1..Len(hs) : ~Addressed(docs[k], hs[k].xpath)

C5_Witness == mounted /\ SomeAbsent(PassNow, PassRecords)

\* Record k of the pass fails, a later record j can be restored at its turn.
FailureThenRestorable(docs, hs, k, j) ==
  /\ k < j
  /\ docs[k + 1] = docs[k]
  /\ RestoreOne(docs[j], hs[j]) # docs[j]

LaterRecordsRestored(docs, hs) ==
  \A k \in 1..Len(hs) : \A j \in 1..Len(hs) :
    FailureThenRestorable(docs, hs, k, j) =>
      /\ NumMarkers(docs[j + 1]) = NumMarkers(docs[j]) + 1
      /\ \E p \in SeqRange(MarkerPaths(Last(docs))) :
           NodeAt(Last(docs), p).hid = hs[j].id

SomeFailureThenRestorable(docs, hs) ==
  \E k \in 1..Len(hs) : \E j \in 1..Len(hs) :
    FailureThenRestorable(docs, hs, k, j)

NotInOneNode(d, h) ==
  LET r == getElementByXPath(d, h.xpath)
  IN  /\ r.status = "ok"
      /\ ~InOneTextNode(NodeAt(d, r.path), StartOf(h), EndOf(h))

UncoveredLeftAlone(docs, hs) ==
  \A k \in 1..Len(hs) : NotInOneNode(docs[k], hs[k]) => docs[k + 1] = docs[k]

\* C7: a record whose range is not inside one text node of the resolved
\* element (it spans text nodes or ends past the element's text) leaves the
\* document as it is.
C7_NoPartialHighlight == UncoveredLeftAlone(PassNow, PassRecords)

\* A record whose range starts in one text node and ends in another.
SomeSpanning(docs, hs) ==
  \E k \in 1..Len(hs) :
    /\ NotInOneNode(docs[k], hs[k])
    /\ EndOf(hs[k]) <=
         Len(TextContent(NodeAt(docs[k], getElementByXPath(docs[k], hs[k].xpath).path)))

C7_Witness == SomeSpanning(PassNow, PassRecords)

\* A record whose range ends past the text of the resolved element.
SomePastEnd(docs, hs) ==
  \E k \in 1..Len(hs) :
    /\ getElementByXPath(docs[k], hs[k].xpath).status = "ok"
    /\ EndOf(hs[k]) >
         Len(TextContent(NodeAt(docs[k], getElementByXPath(docs[k], hs[k].xpath).path)))

C7_WitnessPastEnd == SomePastEnd(PassNow, PassRecords)

IsPrefix(p, q) == Len(p) < Len(q) /\ SubSeq(q, 1, Len(p)) = p

NestedMarkers(root) ==
  \E p \in SeqRange(MarkerPaths(root)) :
    \E q \in SeqRange(MarkerPaths(root)) : IsPrefix(p, q)

InOneText(root, range) ==
  NodeAt(root, range.sc).kind = "text" /\ range.sc = range.ec

\* C9: a pointer release with a selection that starts in one text node and
\* ends in another, or whose start container is not a text node, leaves the
\* store as it is.
C9_MultiNodeSelectionRejected ==
  [][store' = store
       \/ \A range \in Ranges(doc) :
            ~InOneText(doc, range) => ~handleMouseUp(range)]_vars

\* Capture is active, the store has room, and a selection of three or more
\* characters that is not inside one text node is released.
C9_Witness ==
  /\ mounted /\ hActivated
  /\ Len(Records(store)) < MaxRecords /\ timers < MaxTimers
  /\ \E range \in Ranges(doc) :
       /\ range.sc # range.ec
       /\ ~isCollapsed(range)
       /\ Len(trim(RangeText(doc, range))) >= MinTextLength
  /\ \E range \in Ranges(doc) :
       /\ NodeAt(doc, range.sc).kind # "text"
       /\ Len(trim(RangeText(doc, range))) >= MinTextLength

\* C10: a pointer release appends a record only if the activation flag is
\* set, the selection is not collapsed and its trimmed text has three or more
\* characters.
C10_AppendOnlyWhenActive ==
  [][\A range \in Ranges(doc) :
       (handleMouseUp(range) /\ store' # store) =>
         /\ isActivated
         /\ ~isCollapsed(range)
         /\ Len(trim(RangeText(doc, range))) >= MinTextLength]_vars

\* The same with the flag the registered handler captured: a release appends
\* only if that flag is set.
AppendOnlyWhenHandlerActive ==
  [][\A range \in Ranges(doc) :
       (handleMouseUp(range) /\ store' # store) =>
         /\ hActivated
         /\ ~isCollapsed(range)
         /\ Len(trim(RangeText(doc, range))) >= MinTextLength]_vars

\* The flag is cleared while the registered handler still holds it set.
StaleHandler == mounted /\ hActivated /\ ~isActivated

(***************************************************************************)
(* Claims about the store operations                                       *)
(***************************************************************************)
\* The k-th smallest element of the set S of positions.
Nth(S, k) == CHOOSE i \in S : Cardinality({j \in S : j <= i}) = k

\* The sequence out holds the entries of hs at the positions S, in order.
IsSelection(out, hs, S) ==
  /\ Len(out) = Cardinality(S)
  /\ \A k \in 1..Len(out) : out[k] = hs[Nth(S, k)]

HasId(hs, id) == \E i \in 1..Len(hs) : hs[i].id = id

\* The last call was op, made on an item holding an array (or on no item).
Called(op) == result.op = op /\ HasArray(result.before)

DeleteKeepsOthers(old, new, id) ==
  /\ IsSelection(new, old, {i \in 1..Len(old) : old[i].id # id})
  /\ ~HasId(new, id)
  /\ ~HasId(old, id) => new = old

\* C16: after delete(id) the list holds the records whose id differs from
\* id, unchanged and in their order; when no record has the id the list is the
\* list before.
C16_DeleteRemovesOnlyThatId ==
  Called("delete") =>
    /\ result.out.status = "ok"
    /\ store = result.out.item
    /\ DeleteKeepsOthers(Records(result.before), Records(store), result.id)

\* A delete of the id of the first of two records with different ids.
C16_Witness ==
  /\ Called("delete")
  /\ Len(Records(result.before)) = 2
  /\ Records(result.before)[1].id = result.id
  /\ Records(result.before)[2].id # result.id
  /\ Len(Records(store)) = 1

\* C17: getByUrl(u) returns the records whose url is exactly u, in list
\* order, and leaves the item as it is.
C17_ListByUrlExact ==
  Called("getByUrl") =>
    /\ result.out.status = "ok"
    /\ IsSelection(result.out.value, Records(result.before),
                   {i \in 1..Len(Records(result.before)) :
                      Records(result.before)[i].url = result.url})
    /\ result.out.item = result.before
    /\ store = result.before

\* A listing for the page URL of a list that also holds a record whose url
\* differs from it in the trailing slash only.
C17_Witness ==
  /\ Called("getByUrl")
  /\ result.url = PageUrl
  /\ Len(Records(result.before)) = 2
  /\ Len(result.out.value) = 1
  /\ \E i \in 1..2 : Records(result.before)[i].url = OtherUrl

\* The record new is old with the fields of updates overwritten.
IsMerged(new, old, updates) ==
  /\ DOMAIN new = DOMAIN old \cup DOMAIN updates
  /\ \A f \in DOMAIN updates : new[f] = updates[f]
  /\ \A f \in DOMAIN old \ DOMAIN updates : new[f] = old[f]

UpdateMergesOne(old, new, id, updates) ==
  /\ Len(new) = Len(old)
  /\ \A j \in 1..Len(old) :
       IF j = findIndex(old, id)
       THEN IsMerged(new[j], old[j], updates)
       ELSE new[j] = old[j]

\* C18: update(id, updates) leaves the item as it is when no record has the
\* id; otherwise the first record with the id has the fields of updates
\* overwritten and its other fields kept, and every other record and the
\* order of the list are unchanged.
C18_UpdateMergesOneRecord ==
  Called("update") =>
    /\ result.out.status = "ok"
    /\ store = result.out.item
    /\ IF HasId(Records(result.before), result.id)
       THEN UpdateMergesOne(Records(result.before), Records(store),
                            result.id, result.updates)
       ELSE store = result.before

\* An update of the second of two records that changes its note.
C18_Witness ==
  /\ Called("update")
  /\ Len(Records(result.before)) = 2
  /\ findIndex(Records(result.before), result.id) = 2
  /\ Records(result.before)[2].note # result.updates.note
  /\ Records(store)[2].note = result.updates.note

\* C19: after save(record) the list is the list before followed by the
\* record.
C19_AppendIsLast ==
  Called("save") =>
    /\ result.out.status = "ok"
    /\ store = result.out.item
    /\ Len(Records(store)) = Len(Records(result.before)) + 1
    /\ \A k \in 1..Len(Records(result.before)) :
         Records(store)[k] = Records(result.before)[k]
    /\ Records(store)[Len(Records(store))] = result.highlight

\* A save on a list that holds a different record.
C19_Witness ==
  /\ Called("save")
  /\ Len(Records(result.before)) = 1
  /\ Records(result.before)[1] # result.highlight

\* C20: on an item that is not JSON, getAll and getByUrl return the empty
\* list, and a restoration pass and a save end without an error.
C20_CorruptStoreIsEmpty ==
  (result.before = InvalidItem
     /\ result.op \in {"getAll", "getByUrl", "renderHighlights", "save"}) =>
    /\ result.out.status = "ok"
    /\ result.op \in {"getAll", "getByUrl"} => result.out.value = <<>>

\* A store operation has been called on an item that is not JSON.
CalledOnInvalidItem == result.op # "none" /\ result.before = InvalidItem

(***************************************************************************)
(* Claims about the address codec                                          *)
(***************************************************************************)
Found(p) == [status |-> "ok", path |-> p]

\* C11: an element that is encoded and then decoded, the document not being
\* edited in between, is the element the decoding returns.
C11_AddressRoundTrip ==
  (probe.status = "decoded" /\ probe.input = "elem" /\ probe.lastEdit = "none")
    => probe.found = Found(probe.node)

\* The element at path p and its ancestors are HTML elements.
HtmlPath(root, p) ==
  \A i \in 1..Len(p) : NodeAt(root, SubSeq(p, 1, i)).ns = HtmlNs

\* The round trip of the HTML elements that are not inside inline SVG.
RoundTripOfHtmlElements ==
  \A p \in ElementPaths(doc) :
    HtmlPath(doc, p) => getElementByXPath(doc, generateXPath(doc, p)) = Found(p)

\* An SVG element has been encoded and decoded.
SvgElementDecoded ==
  /\ probe.status = "decoded" /\ probe.input = "elem" /\ probe.lastEdit = "none"
  /\ NodeAt(doc, probe.node).ns = SvgNs

\* The step is an edit that generateXPath does not count for the encoded
\* element: not an element with the node name of the element or of one of its
\* ancestors, inserted or removed before it among its siblings.
UncountedEdit ==
  /\ doc' # doc
  /\ probe.status # "none"
  /\ probe.input \in {"elem", "text"}
  /\ probe'.lastEdit = "other"

\* C12: an edit that is not counted for the element leaves its address as it
\* was, and an address that decoded to the element before the edit still
\* decodes to it.
C12_UnrelatedEditsKeepAddress ==
  [][UncountedEdit =>
       /\ generateXPath(doc', probe'.node) = generateXPath(doc, probe.node)
       /\ getElementByXPath(doc, generateXPath(doc, probe.node))
             = Found(probe.node)
           => getElementByXPath(doc', generateXPath(doc, probe.node))
                = Found(probe'.node)]_vars

\* A node that is not counted was inserted or removed before the encoded
\* element or one of its ancestors: the address encoded before the edit
\* decodes to the element, which is at another place than the one the
\* address leads to in the document as it was served.
C12_Witness ==
  /\ probe.status = "encoded"
  /\ probe.input = "elem"
  /\ probe.lastEdit = "other"
  /\ getElementByXPath(doc, probe.address) = Found(probe.node)
  /\ getElementByXPath(pristine, probe.address).status = "ok"
  /\ getElementByXPath(pristine, probe.address).path # probe.node

\* The address x has one segment for the element at path p and for each of
\* its ancestors, from the root down: the element's tag name and 1 + the
\* number of its preceding siblings that are elements of the same tag name.
IsAddressOf(x, root, p) ==
  /\ Len(x) = Len(p)
  /\ \A i \in 1..Len(p) :
       LET e == NodeAt(root, SubSeq(p, 1, i))
           sibs == NodeAt(root, SubSeq(p, 1, i - 1)).kids
       IN  /\ x[i].tag = e.tag
           /\ x[i].index =
                1 + Cardinality({j \in 1..(p[i] - 1) :
                                   /\ sibs[j].kind = "elem"
                                   /\ sibs[j].tag = e.tag
                                   /\ sibs[j].ns = e.ns})

\* C13: the address of an element has one segment tag[k] per ancestor-or-self
\* element from the root down, k counting the preceding siblings of the same
\* tag name; the address of a text node is the address of its parent.
C13_EncodeEmitsIndexedSegments ==
  \A p \in SeqRange(AllPaths(doc)) :
    /\ NodeAt(doc, p).kind = "elem" => IsAddressOf(generateXPath(doc, p), doc, p)
    /\ NodeAt(doc, p).kind = "text" =>
         generateXPath(doc, p) = generateXPath(doc, ParentPath(p))

\* A text node inside the second p of its parent has been encoded: the p is
\* preceded by a p, a comment and elements of other names.
C13_Witness ==
  /\ probe.status = "encoded"
  /\ probe.input = "text"
  /\ Len(probe.address) = 4
  /\ probe.address[3] = [tag |-> "p", index |-> 2]
  /\ probe.node[2] = 1 /\ probe.node[3] >= 4

\* C14: the address of a node that is neither an element nor a text node is
\* the empty string.
C14_OtherNodesUnaddressable ==
  /\ \A p \in SeqRange(AllPaths(doc)) :
       NodeAt(doc, p).kind \notin {"elem", "text"} => generateXPath(doc, p) = <<>>
  /\ (probe.status # "none" /\ probe.input \notin {"elem", "text"})
       => probe.address = <<>>

\* A comment node has been encoded.
C14_Witness == probe.status = "encoded" /\ probe.input = "comment"

\* C15: decoding an address that encode returned never throws: it returns
\* an element or not-found.
C15_DecodeNeverThrows ==
  probe.status = "decoded" => probe.found.status \in {"ok", "null"}

\* The empty address has been decoded.
EmptyAddressDecoded == probe.status = "decoded" /\ probe.address = <<>>

(***************************************************************************)
(* Claims about the records                                                *)
(***************************************************************************)
\* C21: no two records of the persisted list have the same id.
C21_IdsUnique ==
  \A i, j \in 1..Len(Records(store)) :
    i # j => Records(store)[i].id # Records(store)[j].id

\* Two captures for which Math.random returned the same number.
TwoRecordsOneId ==
  /\ Len(Records(store)) = 2
  /\ Records(store)[1].id = Records(store)[2].id
  /\ Records(store)[1] # Records(store)[2]

\* The fields of a record that are set at its creation.
Frozen(h) ==
  [id |-> h.id, url |-> h.url, text |-> h.text, startOffset |-> h.startOffset,
   endOffset |-> h.endOffset, xpath |-> h.xpath, timestamp |-> h.timestamp]

\* The step keeps every record, in its place and with its creation fields.
KeepsRecords(old, new) ==
  /\ Len(new) >= Len(old)
  /\ \A i \in 1..Len(old) : Frozen(new[i]) = Frozen(old[i])

\* The step is the tooltip's delete of the id d: the tooltip was open on a
\* record of that id, and the records that leave are those of that id.
DeletesId(old, new, d) ==
  /\ showTooltip /\ activeHighlight.id = d
  /\ ~showTooltip'
  /\ new = SelectSeq(old, LAMBDA h : h.id # d)

\* C22: a step changes an existing record in its note or color only, and a
\* record leaves the list only by the delete of its id.
C22_RecordsImmutable ==
  [][\/ KeepsRecords(Records(store), Records(store'))
     \/ \E d \in {Records(store)[i].id : i \in 1..Len(Records(store))} :
          DeletesId(Records(store), Records(store'), d)]_vars

\* A record whose note was edited after the clock advanced, next to a later
\* record.
C22_Witness ==
  /\ Len(Records(store)) = 2
  /\ Records(store)[1].note = "n"
  /\ Records(store)[1].timestamp < now
  /\ Records(store)[2].timestamp = now

\* C23: the offsets of every persisted record are non-negative integers
\* with endOffset > startOffset.
C23_OffsetsOrdered ==
  \A i \in 1..Len(Records(store)) :
    /\ Records(store)[i].startOffset \in Nat
    /\ Records(store)[i].endOffset \in Nat
    /\ Records(store)[i].endOffset > Records(store)[i].startOffset

\* A record captured in the middle of a text node, in an element that has
\* text nodes before it.
C23_Witness ==
  \E i \in 1..Len(Records(store)) :
    /\ Records(store)[i].startOffset > 0
    /\ Records(store)[i].endOffset = Records(store)[i].startOffset + MinTextLength
    /\ pristine = PageBreak

(***************************************************************************)
(* Claims about the messages                                               *)
(***************************************************************************)
\* C24: after n delivered TOGGLE_ACTIVATION messages the activation flag is
\* the initial flag (capture off) when n is even, its negation when n is odd.
C24_EachMessageToggles == isActivated = (toggles = 1)

\* Two messages were handled by the same registration of handleMessage: the
\* flag is set, the registered handlers still hold the cleared flag.
TwoTogglesOneRegistration ==
  /\ mounted
  /\ toggles = 0
  /\ isActivated
  /\ ~hActivated

\* The step delivers a REFRESH_HIGHLIGHTS message to the registered handler.
RefreshDelivered ==
  /\ mounted
  /\ msgs # <<>>
  /\ Head(msgs) = "REFRESH_HIGHLIGHTS"
  /\ msgs' = Tail(msgs)

\* C25: the delivery of a REFRESH_HIGHLIGHTS message runs a restoration
\* pass, after which no marker of the document has an id that no record
\* stored for the page URL has.
C25_RefreshDropsStaleMarkers ==
  [][RefreshDelivered =>
       /\ doc' = renderHighlights(doc, store, PageUrl)
       /\ StaleIds(doc', store') = {}]_vars

\* The last refresh found the marker of a record that another tab had
\* deleted; no marker is without a record now, and a record is left.
C25_Witness ==
  /\ mounted
  /\ staleSeen
  /\ StaleIds(doc, store) = {}
  /\ MarkerPaths(doc) # <<>>

\* The step starts the content script in a freshly loaded document.
MountStep == ~mounted /\ mounted'

\* The record h, restored first, gets a marker: its address leads to an
\* element of the document as served, and one text node of that element
\* covers its range.
RestorableFirst(h) ==
  /\ getElementByXPath(pristine, h.xpath).status = "ok"
  /\ InOneTextNode(NodeAt(pristine, getElementByXPath(pristine, h.xpath).path),
                   h.startOffset, h.endOffset)

\* C26: when the content script starts, in either activation state, it
\* runs a restoration pass over the records stored for the page URL: the
\* document is the served document with the markers of that pass, no marker
\* is without a record, and the first record has its marker when it is
\* restorable.
C26_StartRunsPass ==
  [][MountStep =>
       /\ doc' = Last(PassDocs(pristine, PassRecords))
       /\ StaleIds(doc', store') = {}
       /\ (PassRecords # <<>> /\ RestorableFirst(PassRecords[1]))
            => \E p \in SeqRange(MarkerPaths(doc')) :
                 NodeAt(doc', p).hid = PassRecords[1].id]_vars

\* The content script has just started with capture off and has restored
\* the marker of a stored record.
C26_Witness ==
  /\ result.op = "mount"
  /\ ~isActivated
  /\ MarkerPaths(doc) # <<>>
  /\ StaleIds(doc, store) = {}

(***************************************************************************)
(* Claims about clicks                                                     *)
(***************************************************************************)
\* The records of the store with the id the clicked element carries.
RecordsOfClick == SelectSeq(Records(store), LAMBDA h : h.id = result.id)

\* After a click on a marker whose id a record has, the tooltip is open on
\* a record of that id; after a click on an element without the marker
\* class the tooltip is hidden.
ClickOpensRecordOfId ==
  /\ (result.op = "clickMarker" /\ RecordsOfClick # <<>>)
       => (showTooltip /\ activeHighlight \in SeqRange(RecordsOfClick))
  /\ result.op = "click" => ~showTooltip

\* C27: after a click on a marker whose id a record has, the tooltip is
\* open on exactly the record of that id, in any activation state; after a
\* click on an element that is not a marker the tooltip is hidden.
C27_ClickResolvesToRecord ==
  /\ ClickOpensRecordOfId
  /\ (result.op = "clickMarker" /\ RecordsOfClick # <<>>)
       => SeqRange(RecordsOfClick) = {activeHighlight}

\* A marker was clicked while capture was off, and the tooltip is open.
ClickedWhileOff ==
  /\ result.op = "clickMarker"
  /\ ~isActivated /\ ~hActivated
  /\ showTooltip

\* A marker was clicked whose id two records have.
ClickedOneOfTwo ==
  /\ result.op = "clickMarker"
  /\ Len(RecordsOfClick) = 2
  /\ RecordsOfClick[1] # RecordsOfClick[2]

(***************************************************************************)
(* Claims about the handlers and the store                                 *)
(***************************************************************************)
\* new is old followed by one record, and the handler has set its timer.
IsAppend(old, new) ==
  /\ Len(new) = Len(old) + 1
  /\ SubSeq(new, 1, Len(old)) = old
  /\ timers' = timers + 1

\* new is old without the records of the id the open tooltip shows.
IsRemove(old, new) ==
  /\ showTooltip
  /\ new = SelectSeq(old, LAMBDA h : h.id # activeHighlight.id)

\* new is old with the note of the first record of the id the open tooltip
\* shows set to a note of the editor.
IsNoteEdit(old, new) ==
  /\ showTooltip
  /\ Len(new) = Len(old)
  /\ \E k \in 1..Len(old) : \E note \in Notes :
       /\ old[k].id = activeHighlight.id
       /\ \A j \in 1..(k - 1) : old[j].id # activeHighlight.id
       /\ new[k] = [old[k] EXCEPT !.note = note]
       /\ \A j \in 1..Len(old) : j # k => new[j] = old[j]

\* C28: every step leaves the persisted list as it was or applies exactly
\* one operation to it (append, remove, update): no appended record and no
\* edit is lost.
C28_OneOperationPerStep ==
  [][\/ Records(store') = Records(store)
     \/ IsAppend(Records(store), Records(store'))
     \/ IsRemove(Records(store), Records(store'))
     \/ IsNoteEdit(Records(store), Records(store'))]_vars

\* Two captures and an edit of the later record: both records are stored,
\* the second with the note.
C28_Witness ==
  /\ Len(Records(store)) = 2
  /\ Records(store)[1].id # Records(store)[2].id
  /\ Records(store)[1].note = ""
  /\ Records(store)[2].note = "n"
  /\ activeHighlight = Records(store)[2]

(***************************************************************************)
(* Claims about the markers and the records of a capture                   *)
(***************************************************************************)
\* The marker m is the marker of the record h.
IsMarkerOf(m, h) ==
  /\ m.tag = "span"
  /\ m.cls = "text-highlight-extension"
  /\ m.hid = h.id
  /\ m.title = (IF h.note = "" THEN "Click to view note" ELSE h.note)
  /\ m.bg = (IF h.color = "" THEN "#fef08a" ELSE h.color)

\* C29: after a restoration pass every marker of the document carries the
\* id of a record stored for the page URL, the marker class, that record's
\* note as hover text (the placeholder for an empty note) and its color as
\* background (#fef08a for a record without a color).
C29_MarkerCarriesRecord ==
  (result.op = "renderHighlights" /\ result.out.status = "ok") =>
    \A p \in SeqRange(MarkerPaths(doc)) :
      \E i \in 1..Len(Records(store)) :
        /\ Records(store)[i].url = PageUrl
        /\ IsMarkerOf(NodeAt(doc, p), Records(store)[i])

\* A pass has restored a record with an edited note and no color.
C29_Witness ==
  /\ result.op = "renderHighlights"
  /\ \E p \in SeqRange(MarkerPaths(doc)) :
       /\ NodeAt(doc, p).title = "n"
       /\ NodeAt(doc, p).bg = "#fef08a"
  /\ \E i \in 1..Len(Records(store)) :
       Records(store)[i].note = "n" /\ Records(store)[i].color = ""

\* A pass has restored a record with an empty note, and one with a note
\* and a color of its own.
C29_WitnessPlaceholder ==
  /\ result.op = "renderHighlights"
  /\ \E p \in SeqRange(MarkerPaths(doc)) :
       NodeAt(doc, p).title = "Click to view note"
  /\ \E p \in SeqRange(MarkerPaths(doc)) :
       NodeAt(doc, p).title = "n" /\ NodeAt(doc, p).bg = "#bbf7d0"

\* The selection a capture takes: a range inside one text node whose text,
\* trimmed, has the minimum length.
Capturable(root, range) ==
  /\ range.sc = range.ec
  /\ NodeAt(root, range.sc).kind = "text"
  /\ range.so < range.eo
  /\ Len(trim(RangeText(root, range))) >= MinTextLength

\* The record h is the record of a capture of range, but for its id and
\* its color.
IsCaptureOf(h, root, range) ==
  /\ h.url = PageUrl
  /\ h.text = trim(RangeText(root, range))
  /\ h.note = ""
  /\ h.startOffset = range.so
  /\ h.endOffset = range.eo
  /\ h.xpath = generateXPath(root, ParentPath(range.sc))
  /\ h.timestamp = now

\* The step is a capture: handleSaveHighlight has set its timer.
CaptureStep == timers' = timers + 1

\* A capture appends exactly one record, built from the selection, the
\* page URL and the clock.
CaptureAppendsRecord ==
  [][CaptureStep =>
       /\ Len(Records(store')) = Len(Records(store)) + 1
       /\ SubSeq(Records(store'), 1, Len(Records(store))) = Records(store)
       /\ \E range \in Ranges(doc) :
            /\ Capturable(doc, range)
            /\ IsCaptureOf(Last(Records(store')), doc, range)]_vars

\* C30: a capture appends exactly one record, built from the selection,
\* the page URL and the clock, with an id no stored record has and the
\* color selected in the palette at that moment.
C30_CaptureBuildsRecord ==
  [][CaptureStep =>
       /\ Len(Records(store')) = Len(Records(store)) + 1
       /\ SubSeq(Records(store'), 1, Len(Records(store))) = Records(store)
       /\ \E range \in Ranges(doc) :
            /\ Capturable(doc, range)
            /\ IsCaptureOf(Last(Records(store')), doc, range)
       /\ \A i \in 1..Len(Records(store)) :
            Records(store)[i].id # Last(Records(store')).id
       /\ Last(Records(store')).color = selectedColor]_vars

\* A capture appends the record with the selected color, whatever its id.
CaptureTakesSelectedColor ==
  [][CaptureStep => Last(Records(store')).color = selectedColor]_vars

\* The record just captured has not the color selected in the palette.
CapturedWithOldColor ==
  /\ result.op = "save"
  /\ Last(Records(store)) = result.highlight
  /\ result.highlight.color # selectedColor

(***************************************************************************)
(* Claims about the passes the handlers run                                *)
(***************************************************************************)
\* The step is the pass of a timeout, run right after the capture that set
\* the timeout.
PassAfterCapture == result.op = "save" /\ timers' = timers - 1 /\ mounted'

\* The pass that follows a capture reads a list that holds the captured
\* record, and restores that list.
PassReadsCapture ==
  [][PassAfterCapture =>
       /\ result'.op = "timer"
       /\ result'.out.status = "ok"
       /\ result.highlight \in SeqRange(result'.out.value)
       /\ doc' = Last(PassDocs(UnwindMarkers(doc), result'.out.value))]_vars

\* The steps the fairness condition is about are the steps of TimerFire.
TimerStepIsTimerFire == [][TimerStep <=> TimerFire]_vars

\* While the page stays loaded, a pending timeout leads to its pass.
TimerLeadsToPass == (timers > 0) ~> (result.op = "timer" \/ ~mounted)

\* C31: after a capture the pass of its timeout eventually runs, with no
\* user event needed, and the list that pass reads holds the captured
\* record.
C31_CaptureLeadsToPass == PassReadsCapture /\ TimerLeadsToPass

\* The pass of a timeout has run and has restored the captured record.
C31_Witness ==
  /\ result.op = "timer"
  /\ \E h \in SeqRange(result.out.value) :
       /\ h.timestamp = now
       /\ \E p \in SeqRange(MarkerPaths(doc)) : NodeAt(doc, p).hid = h.id

\* The texts of the markers of root that carry id.
TextsOfId(root, id) ==
  {TextContent(NodeAt(root, p)) :
     p \in {q \in SeqRange(MarkerPaths(root)) : NodeAt(root, q).hid = id}}

\* The ids of the records of st for the page URL.
PageIds(st) ==
  {h.id : h \in SeqRange(SelectSeq(Records(st), LAMBDA h : h.url = PageUrl))}

\* C32: the step of the tooltip's delete button leaves no record and no
\* marker with the deleted id and the tooltip hidden, and every other
\* record of the page that had a marker has a marker of the same text.
C32_TooltipDeleteRemovesMarker ==
  [][result'.op = "delete" =>
       /\ \A i \in 1..Len(Records(store')) : Records(store')[i].id # result'.id
       /\ ~showTooltip'
       /\ TextsOfId(doc', result'.id) = {}
       /\ \A id \in PageIds(store) \ {result'.id} :
            /\ id \in PageIds(store')
            /\ TextsOfId(doc, id) \subseteq TextsOfId(doc', id)]_vars

\* The ids of the records of st for the page URL that a pass restores with
\* their captured text when they are the only record and the page is as
\* served.
IdsRestoredAlone(st) ==
  {h.id : h \in {r \in SeqRange(SelectSeq(Records(st),
                                          LAMBDA r : r.url = PageUrl)) :
                   CapturesRestored(PassDocs(pristine, <<r>>), <<r>>)}}

\* The step of the tooltip's delete button leaves no record and no marker
\* with the deleted id and the tooltip hidden.
DeleteRemovesItsMarkers ==
  [][result'.op = "delete" =>
       /\ \A i \in 1..Len(Records(store')) : Records(store')[i].id # result'.id
       /\ ~showTooltip'
       /\ TextsOfId(doc', result'.id) = {}]_vars

\* The step of the tooltip's delete button keeps the markers of the other
\* records that the page as served restores.
DeleteKeepsRestorableMarkers ==
  [][result'.op = "delete" =>
       \A id \in IdsRestoredAlone(store) \ {result'.id} :
         /\ id \in PageIds(store')
         /\ TextsOfId(doc, id) \subseteq TextsOfId(doc', id)]_vars

\* A record was deleted through the tooltip; a record captured inside its
\* marker is stored and has no marker.
OrphanAfterDelete ==
  /\ result.op = "delete"
  /\ timers = 0
  /\ \E h \in SeqRange(PassRecords) :
       /\ ~Addressed(pristine, h.xpath)
       /\ TextsOfId(doc, h.id) = {}

\* A record was deleted through the tooltip, and the marker of the other
\* record is in the document.
DeletedWithOtherMarked ==
  /\ result.op = "delete"
  /\ Len(Records(store)) = 1
  /\ TextsOfId(doc, Records(store)[1].id) # {}
  /\ TextsOfId(doc, result.id) = {}

(***************************************************************************)
(* Claims about the records of one pass                                    *)
(***************************************************************************)
\* The records hs address one element of root, and their ranges are
\* non-empty, pairwise disjoint and each inside one text node of it.
SameElementDisjoint(root, hs) ==
  /\ hs # <<>>
  /\ getElementByXPath(root, hs[1].xpath).status = "ok"
  /\ \A i \in 1..Len(hs) :
       /\ hs[i].xpath = hs[1].xpath
       /\ hs[i].startOffset < hs[i].endOffset
       /\ InOneTextNode(NodeAt(root, getElementByXPath(root, hs[1].xpath).path),
                        hs[i].startOffset, hs[i].endOffset)
       /\ \A j \in 1..Len(hs) : i # j => Disjoint(hs[i], hs[j])

\* In e every record of hs has one marker, whose text is the record's
\* range of the text of the element of d the records address, and e has
\* no other marker.
EachRangeMarked(d, e, hs) ==
  /\ NumMarkers(e) = Len(hs)
  /\ \A i \in 1..Len(hs) :
       TextsOfId(e, hs[i].id) =
         {SubSeq(TextContent(NodeAt(d, getElementByXPath(d, hs[1].xpath).path)),
                 hs[i].startOffset + 1, hs[i].endOffset)}

\* C33: a pass over records of one element whose ranges are pairwise
\* disjoint and each inside one text node of the unmarked element gives
\* every record its marker, over its own range of the element's text, in
\* whatever order the records are stored.
C33_DisjointRangesRestored ==
  [][result'.op = "mount" /\ SameElementDisjoint(UnwindMarkers(doc), PassRecords)
       => EachRangeMarked(UnwindMarkers(doc), doc', PassRecords)]_vars

\* A pass has restored three records of one element that are stored in
\* another order than their ranges have in the text.
C33_Witness ==
  /\ result.op = "mount"
  /\ Len(PassRecords) = 3
  /\ SameElementDisjoint(pristine, PassRecords)
  /\ PassRecords[2].endOffset <= PassRecords[3].startOffset
  /\ PassRecords[3].endOffset <= PassRecords[1].startOffset
  /\ NumMarkers(doc) = 3

\* The texts of the markers record h gets from a pass over d that finds no
\* other record.
TextsAlone(d, h) == TextsOfId(RestoreOne(d, h), h.id)

\* C34: in a pass every record gets the markers it gets when it is the
\* only record stored, whichever other records are stored and in whatever
\* order.
C34_RestoredIndependently ==
  [][result'.op = "mount" =>
       \A i \in 1..Len(PassRecords) :
         TextsOfId(doc', PassRecords[i].id)
           = TextsAlone(UnwindMarkers(doc), PassRecords[i])]_vars

\* A pass has left a record without a marker that it restores when the
\* record is the only one stored.
DroppedForAnother ==
  /\ result.op = "mount"
  /\ \E i \in 1..Len(PassRecords) :
       /\ TextsOfId(doc, PassRecords[i].id) = {}
       /\ TextsAlone(pristine, PassRecords[i]) # {}

\* A pass has restored a record that it does not restore when the record
\* is the only one stored: its address leads through the marker of another.
RestoredThroughAnother ==
  /\ result.op = "mount"
  /\ \E i \in 1..Len(PassRecords) :
       /\ TextsOfId(doc, PassRecords[i].id) # {}
       /\ TextsAlone(pristine, PassRecords[i]) = {}
       /\ \A j \in 1..Len(PassRecords) :
            i # j => PassRecords[i].id # PassRecords[j].id

(***************************************************************************)
(* Claims about the note editor                                            *)
(***************************************************************************)
\* The records with the id of the note edit made last.
RecordsOfEdit == SelectSeq(Records(store), LAMBDA h : h.id = result.id)

\* The hover text a marker of record h has after a pass.
HoverText(h) == IF h.note # "" THEN h.note ELSE TitlePlaceholder

\* After a note edit through the tooltip the tooltip shows the stored
\* record, with the note typed.
ActiveHighlightIsStored ==
  result.op = "update" =>
    /\ RecordsOfEdit # <<>>
    /\ activeHighlight = Head(RecordsOfEdit)
    /\ activeHighlight.note = result.updates.note

\* C35: after a note edit through the tooltip the markers of the record
\* have the stored note as hover text, the placeholder when it is empty,
\* and the tooltip shows the stored record.
C35_NoteEditReachesMarker ==
  result.op = "update" =>
    /\ RecordsOfEdit # <<>>
    /\ activeHighlight = Head(RecordsOfEdit)
    /\ \A p \in SeqRange(MarkerPaths(doc)) :
         NodeAt(doc, p).hid = result.id =>
           NodeAt(doc, p).title = HoverText(Head(RecordsOfEdit))

\* A note was typed and saved, the marker of the record still has the
\* placeholder as hover text.
StaleHoverText ==
  /\ result.op = "update"
  /\ Head(RecordsOfEdit).note = "n"
  /\ \E p \in SeqRange(MarkerPaths(doc)) :
       /\ NodeAt(doc, p).hid = result.id
       /\ NodeAt(doc, p).title = TitlePlaceholder

(***************************************************************************)
(* Claims about the popup's flag                                           *)
(***************************************************************************)
TogglesInFlight == SelectSeq(msgs, LAMBDA m : m = "TOGGLE_ACTIVATION")

\* C36: while no TOGGLE_ACTIVATION message is in flight, the flag the
\* popup shows and stores equals the activation flag of the page.
C36_PopupAgreesWithPage ==
  TogglesInFlight = <<>> => popupActivated = isActivated

\* The popup was toggled on, its message met no listener, and the content
\* script that has started since has capture off.
PopupOnPageOff ==
  /\ msgs = <<>>
  /\ mounted
  /\ toggles = 0
  /\ popupActivated
  /\ ~isActivated
  /\ ~hActivated

====
